---- MODULE Spec2Model ----
(***************************************************************************)
(* dba-mcp: the vendor adapter (DatabaseService), the migration engine     *)
(* (DataMigrationService), the replicate_database tool handler, the        *)
(* persisted store (StorageService) and the connection registry of the     *)
(* server process (index.js).                                              *)
(*                                                                         *)
(* A database is a catalogue of named objects (tables and views) holding   *)
(* rows.  A native driver call either completes or fails; which one is a   *)
(* nondeterministic choice of the environment.  A native failure carries   *)
(* the driver's message, NativeMsg.                                        *)
(***************************************************************************)
EXTENDS Integers, Sequences, FiniteSets, TLC

VARIABLES
    srcVendor,      \* vendor tag of the source handle
    tgtVendor,      \* vendor tag of the target handle
    srcKind,        \* source catalogue: object name -> "TABLE" | "VIEW"
    srcRows,        \* source data: object name -> sequence of rows
    tgtRows,        \* target data: table name -> sequence of rows
    leased,         \* Oracle pool connections acquired and not yet closed
    pc,             \* position of the running handler
    caller,         \* who awaits the running migrateTable
    tables,         \* migrateData: the requested table list
    truncateTarget, \* migrateData: the truncate flag
    ti,             \* migrateData / replicate loop: index of the current table
    results,        \* migrateData: the report built so far
    mt,             \* migrateTable frame (arguments, fetched rows, loop index)
    mtOutcome,      \* how the last migrateTable call settled
    batches,        \* history: batches handed to target.insertBatch by the running migrateTable
    tgtAtEntry,     \* history: the target data when the running migrateTable was entered
    settled,        \* history: how the migrateTable call of each migrateData iteration settled
    listing,        \* replicate: TableInfo[] returned by source.listTables
    report,         \* replicate: the report lines pushed so far
    steps,          \* replicate: history of (table index, step) in execution order
    call,           \* adapter: the last adapter call and how it settled
    ncalls,         \* adapter: number of adapter calls made
    request,        \* event-driven vendor: the request in flight and its deferred result
    pair,           \* migrateData run with the truncate flag set and its twin without
    analysis,       \* analyzeProcedureTables: the source text and the mapping returned
    connections,    \* StorageService: the rows of the connections table, in rowid order
    lastOp,         \* history: the last save/remove made on each connection id
    got,            \* StorageService: what the last getConnections returned
    contexts,       \* StorageService: the rows of the contexts table, in rowid order
    ctxSaved,       \* history: the last saveContext made for each connection id
    registry,       \* index.js: the in-memory array of opened handles
    running,        \* index.js: main() has loaded the connections and the server answers
    argv,           \* index.js: the id / connection string pairs of process.argv
    reply           \* index.js: the last tool call answered, with what it found and left

vars == << srcVendor, tgtVendor, srcKind, srcRows, tgtRows, leased, pc, caller,
           tables, truncateTarget, ti, results, mt, mtOutcome, batches,
           tgtAtEntry, settled, listing, report, steps, call, ncalls,
           request, pair, analysis, connections, lastOp, got,
           contexts, ctxSaved, registry, running, argv, reply >>

envVars == << srcVendor, tgtVendor, srcKind, srcRows >>
mdVars == << tables, truncateTarget, results, settled >>
replVars == << listing, report, steps >>
adapterVars == << call, ncalls >>
storeVars == << connections, lastOp, got >>
appVars == << contexts, ctxSaved, registry, running, argv, reply >>
sideVars == << request, pair, analysis, storeVars, appVars >>

----------------------------------------------------------------------------
(* Bounds of the model *)

MaxRows == 2
MaxTables == 2
MaxPre == 1
MaxCalls == 2
MaxCap == 3

(* Program constants *)

MigrateCap == 100000
DefaultBatchSize == 1000
DefaultMaxRows == 100

SupportedVendors == {"oracle", "postgresql", "mysql", "mariadb", "sqlserver", "sqlite"}
VendorTags == SupportedVendors \cup {"db2"}
ObjectNames == {"A", "B"}
ColOrder == << "ID", "SRC" >>
NativeMsg == "native driver error"

Min(a, b) == IF a < b THEN a ELSE b
Range(s) == { s[i] : i \in DOMAIN s }

\* The i-th row of object n: an object keyed by column name.
Row(n, i) == [ID |-> i, SRC |-> n]
RowsOf(n, k) == [i \in 1..k |-> Row(n, i)]
PreRows(n, k) == [i \in 1..k |-> Row("pre", i)]

\* a slice that also takes the element at index b
slice_Inclusive(s, a, b) == SubSeq(s, a + 1, Min(b + 1, Len(s)))

\* Array.prototype.slice(a, b): a negative index counts from the end, both
\* indices are clamped to 0..length, and the slice is empty when b is not after a
slice(s, a, b) ==
    LET at(k) == IF k < 0 THEN (IF Len(s) + k < 0 THEN 0 ELSE Len(s) + k) ELSE Min(k, Len(s))
    IN  SubSeq(s, at(a) + 1, at(b))

----------------------------------------------------------------------------
(* DatabaseService.executeQuery and the per-vendor executors *)

\* connection.execute(sql, [], { maxRows }): the driver option; 0 means no limit
executeOracleQuery(all, maxRows) ==
    IF maxRows = 0 THEN all ELSE slice(all, 0, maxRows)

\* `${sql} LIMIT ${maxRows}`
executePostgresQuery(all, maxRows) == slice(all, 0, maxRows)

\* `${sql} LIMIT ${maxRows}`
executeMySqlQuery(all, maxRows) == slice(all, 0, maxRows)

\* the 'row' handler: rows.push(row) only while rows.length < maxRows
RECURSIVE SqlServerBuffer(_, _, _)
SqlServerBuffer(buf, rest, maxRows) ==
    IF rest = << >> THEN buf
    ELSE SqlServerBuffer(IF Len(buf) < maxRows THEN Append(buf, Head(rest)) ELSE buf,
                         Tail(rest), maxRows)

executeSqlServerQuery(all, maxRows) == SqlServerBuffer(<< >>, all, maxRows)

\* `${sql} LIMIT ${maxRows}`; in SQLite a negative LIMIT means no limit
executeSqliteQuery(all, maxRows) ==
    IF maxRows < 0 THEN all ELSE slice(all, 0, maxRows)

HasQueryBranch(vendor) == vendor \in SupportedVendors

executorRows(vendor, all, maxRows) ==
    CASE vendor = "oracle" -> executeOracleQuery(all, maxRows)
      [] vendor = "postgresql" -> executePostgresQuery(all, maxRows)
      [] vendor \in {"mysql", "mariadb"} -> executeMySqlQuery(all, maxRows)
      [] vendor = "sqlserver" -> executeSqlServerQuery(all, maxRows)
      [] vendor = "sqlite" -> executeSqliteQuery(all, maxRows)
      [] OTHER -> << >>

Rejected(msg) == [ok |-> FALSE, error |-> msg, rows |-> << >>, rowCount |-> 0]
Resolved(rows, n) == [ok |-> TRUE, error |-> "", rows |-> rows, rowCount |-> n]

\* executeQuery(sql, maxRows) of a SELECT over `all`; nativeOk: the driver call completes
executeQuery(vendor, all, maxRows, nativeOk) ==
    IF ~HasQueryBranch(vendor)
    THEN Rejected("Error ejecutando query: " \o ("Vendor no soportado: " \o vendor))
    ELSE IF ~nativeOk
    THEN Rejected("Error ejecutando query: " \o NativeMsg)
    ELSE LET rows == executorRows(vendor, all, maxRows)
         IN  Resolved(rows, Len(rows))

----------------------------------------------------------------------------
(* DatabaseService.describeTable / insertBatch *)

Throws(msg) == [ok |-> FALSE, error |-> msg, value |-> << >>]
Returns(v) == [ok |-> TRUE, error |-> "", value |-> v]

\* describeTable(tableName): the column names of the ColumnInfo[] it returns;
\* a native failure reaches the caller as it is
describeTable(vendor, nativeOk) ==
    IF vendor \notin SupportedVendors THEN Throws("Vendor no soportado: " \o vendor)
    ELSE IF ~nativeOk THEN Throws(NativeMsg)
    ELSE Returns(ColOrder)

\* Object.keys(rows[0])
distinctColumns(rows) == SelectSeq(ColOrder, LAMBDA c : c \in DOMAIN rows[1])

IndexOf(s, x) == CHOOSE i \in DOMAIN s : s[i] = x

\* rows.map(r => distinctColumns.map(c => r[c])): the bound values, one list per row
bindValues(rows) ==
    LET dc == distinctColumns(rows)
    IN  [i \in 1..Len(rows) |-> [j \in 1..Len(dc) |-> rows[i][dc[j]]]]

\* what the statement INSERT INTO t (cols) VALUES (binds) appends to the table
insertedRows(cols, binds) ==
    [i \in 1..Len(binds) |-> [c \in Range(cols) |-> binds[i][IndexOf(cols, c)]]]

\* the vendors insertBatch has a branch for (oracle, sqlite, postgresql, mysql/mariadb)
HasInsertBranch(vendor) == vendor \in {"oracle", "sqlite", "postgresql", "mysql", "mariadb"}

\* the table after insertBatch ran on it
insertBatchStored(vendor, stored, rows, nativeOk) ==
    IF rows = << >> THEN stored
    ELSE IF HasInsertBranch(vendor) /\ nativeOk
    THEN stored \o insertedRows(distinctColumns(rows), bindValues(rows))
    ELSE stored

\* an insertBatch whose catch logs the error and returns 0
insertBatch_Swallows(vendor, rows, nativeOk) ==
    IF rows = << >> THEN Returns(0)
    ELSE IF HasInsertBranch(vendor)
    THEN IF nativeOk THEN Returns(Len(rows)) ELSE Returns(0)
    ELSE Returns(0)

\* the value insertBatch(tableName, rows) settles with
insertBatch(vendor, rows, nativeOk) ==
    IF rows = << >> THEN Returns(0)
    ELSE IF HasInsertBranch(vendor)
    THEN IF nativeOk THEN Returns(Len(rows)) ELSE Throws(NativeMsg)
    ELSE Returns(0)

----------------------------------------------------------------------------
(* DataMigrationService.migrateTable *)

BatchSizes == {1, 2, DefaultBatchSize}
NoFrame == [table |-> "", target |-> "", batchSize |-> 0, colNames |-> << >>,
            rows |-> << >>, i |-> 0, totalInserted |-> 0]
NoOutcome == [state |-> "none"]

\* SELECT colNames FROM table: every row keyed by the selected columns
selectColumns(all, colNames) ==
    [k \in 1..Len(all) |-> [c \in Range(colNames) |-> all[k][c]]]

\* entry of migrateTable(tableName, targetTableName, batchSize)
migrateTableEnter(tableName, targetTableName, batchSize, who) ==
    /\ mt' = [NoFrame EXCEPT !.table = tableName,
                             !.target = IF targetTableName = "" THEN tableName
                                        ELSE targetTableName,
                             !.batchSize = batchSize]
    /\ mtOutcome' = NoOutcome
    /\ batches' = << >>
    /\ tgtAtEntry' = tgtRows
    /\ caller' = who
    /\ pc' = "mt_describe"

\* a direct call of the public method
migrateTableCall ==
    /\ pc = "idle"
    /\ \E t \in ObjectNames, tt \in {"", "B"}, b \in BatchSizes :
          migrateTableEnter(t, tt, b, "direct")
    /\ UNCHANGED << envVars, sideVars, tgtRows, leased, mdVars, ti, replVars, adapterVars >>

mtReject(msg) ==
    /\ mtOutcome' = [state |-> "rejected", error |-> msg]
    /\ pc' = "mt_settled"

mtResolve(n) ==
    /\ mtOutcome' = [state |-> "resolved", rows |-> n]
    /\ pc' = "mt_settled"

\* const columns = await this.source.describeTable(tableName)
mtDescribe ==
    /\ pc = "mt_describe"
    /\ \E nativeOk \in BOOLEAN :
          LET r == describeTable(srcVendor, nativeOk)
          IN  IF r.ok
              THEN /\ mt' = [mt EXCEPT !.colNames = r.value]
                   /\ pc' = "mt_query"
                   /\ UNCHANGED mtOutcome
              ELSE /\ mtReject(r.error)
                   /\ UNCHANGED mt
    /\ UNCHANGED << envVars, sideVars, tgtRows, leased, caller, mdVars, ti, batches,
                    tgtAtEntry, replVars, adapterVars >>

\* const result = await this.source.executeQuery(sql, 100000); the zero-row return
mtQuery ==
    /\ pc = "mt_query"
    /\ \E nativeOk \in BOOLEAN :
          LET r == executeQuery(srcVendor, selectColumns(srcRows[mt.table], mt.colNames),
                                MigrateCap, nativeOk)
          IN  IF ~r.ok
              THEN /\ mtReject(r.error)
                   /\ UNCHANGED mt
              ELSE IF Len(r.rows) = 0
              THEN /\ mtResolve(0)
                   /\ UNCHANGED mt
              ELSE /\ mt' = [mt EXCEPT !.rows = r.rows, !.i = 0, !.totalInserted = 0]
                   /\ pc' = "mt_loop"
                   /\ UNCHANGED mtOutcome
    /\ UNCHANGED << envVars, sideVars, tgtRows, leased, caller, mdVars, ti, batches,
                    tgtAtEntry, replVars, adapterVars >>

\* a batch loop that undoes the batches already written when one fails
mtInsertBatch_RollsBack ==
    /\ pc = "mt_loop"
    /\ mt.i < Len(mt.rows)
    /\ \E nativeOk \in BOOLEAN :
          LET batch == slice(mt.rows, mt.i, mt.i + mt.batchSize)
              r == insertBatch(tgtVendor, batch, nativeOk)
          IN  /\ batches' = Append(batches, batch)
              /\ IF r.ok
                 THEN /\ tgtRows' = [tgtRows EXCEPT ![mt.target] =
                                        insertBatchStored(tgtVendor, @, batch, nativeOk)]
                      /\ mt' = [mt EXCEPT !.totalInserted = @ + Len(batch),
                                          !.i = @ + mt.batchSize]
                      /\ UNCHANGED << pc, mtOutcome >>
                 ELSE /\ tgtRows' = tgtAtEntry
                      /\ mtReject(r.error)
                      /\ UNCHANGED mt
    /\ UNCHANGED << envVars, sideVars, leased, caller, mdVars, ti, tgtAtEntry, replVars,
                    adapterVars >>

\* one iteration of the batch loop: slice, await target.insertBatch, add batch.length
mtInsertBatch ==
    /\ pc = "mt_loop"
    /\ mt.i < Len(mt.rows)
    /\ \E nativeOk \in BOOLEAN :
          LET batch == slice(mt.rows, mt.i, mt.i + mt.batchSize)
              r == insertBatch(tgtVendor, batch, nativeOk)
          IN  /\ batches' = Append(batches, batch)
              /\ tgtRows' = [tgtRows EXCEPT ![mt.target] =
                                insertBatchStored(tgtVendor, @, batch, nativeOk)]
              /\ IF r.ok
                 THEN /\ mt' = [mt EXCEPT !.totalInserted = @ + Len(batch),
                                          !.i = @ + mt.batchSize]
                      /\ UNCHANGED << pc, mtOutcome >>
                 ELSE /\ mtReject(r.error)
                      /\ UNCHANGED mt
    /\ UNCHANGED << envVars, sideVars, leased, caller, mdVars, ti, tgtAtEntry, replVars,
                    adapterVars >>

\* the loop condition fails: return { rows: totalInserted, time }
mtReturn ==
    /\ pc = "mt_loop"
    /\ ~(mt.i < Len(mt.rows))
    /\ mtResolve(mt.totalInserted)
    /\ UNCHANGED << envVars, sideVars, tgtRows, leased, caller, mdVars, ti, mt, batches,
                    tgtAtEntry, replVars, adapterVars >>

\* the direct caller receives the settled promise
mtDirectDone ==
    /\ pc = "mt_settled"
    /\ caller = "direct"
    /\ pc' = "done"
    /\ UNCHANGED << envVars, sideVars, tgtRows, leased, caller, mdVars, ti, mt, mtOutcome,
                    batches, tgtAtEntry, replVars, adapterVars >>

----------------------------------------------------------------------------
(* DataMigrationService.migrateData *)

RECURSIVE SeqsUpTo(_, _)
SeqsUpTo(S, n) ==
    IF n = 0 THEN {<< >>}
    ELSE LET shorter == SeqsUpTo(S, n - 1)
         IN  shorter \cup { Append(s, x) : s \in shorter, x \in S }

TableLists == SeqsUpTo(ObjectNames, MaxTables)

migrateDataCall ==
    /\ pc = "idle"
    /\ \E tl \in TableLists, tr \in BOOLEAN :
          /\ tables' = tl
          /\ truncateTarget' = tr
    /\ results' = << >>
    /\ settled' = << >>
    /\ ti' = 1
    /\ pc' = "md_loop"
    /\ UNCHANGED << envVars, sideVars, tgtRows, leased, caller, mt, mtOutcome, batches,
                    tgtAtEntry, replVars, adapterVars >>

\* for (const table of tables): the truncate branch is empty; await this.migrateTable(table)
migrateDataNext ==
    /\ pc = "md_loop"
    /\ ti <= Len(tables)
    /\ migrateTableEnter(tables[ti], "", DefaultBatchSize, "migrateData")
    /\ UNCHANGED << envVars, sideVars, tgtRows, leased, mdVars, ti, replVars, adapterVars >>

successEntry(table, res) == [table |-> table, status |-> "success", rows |-> res.rows]
errorEntry(table, e) == [table |-> table, status |-> "error", error |-> e.error]

\* a migrateData whose catch records nothing for the failed table
migrateDataRecord_SkipsFailed ==
    /\ pc = "mt_settled"
    /\ caller = "migrateData"
    /\ results' = IF mtOutcome.state = "resolved"
                  THEN Append(results, successEntry(tables[ti], mtOutcome))
                  ELSE results
    /\ settled' = Append(settled, mtOutcome.state)
    /\ ti' = ti + 1
    /\ pc' = "md_loop"
    /\ UNCHANGED << envVars, sideVars, tgtRows, leased, caller, tables, truncateTarget, mt,
                    mtOutcome, batches, tgtAtEntry, replVars, adapterVars >>

\* results.push(...) in the try or in the catch
migrateDataRecord ==
    /\ pc = "mt_settled"
    /\ caller = "migrateData"
    /\ results' = Append(results,
                         IF mtOutcome.state = "resolved"
                         THEN successEntry(tables[ti], mtOutcome)
                         ELSE errorEntry(tables[ti], mtOutcome))
    /\ settled' = Append(settled, mtOutcome.state)
    /\ ti' = ti + 1
    /\ pc' = "md_loop"
    /\ UNCHANGED << envVars, sideVars, tgtRows, leased, caller, tables, truncateTarget, mt,
                    mtOutcome, batches, tgtAtEntry, replVars, adapterVars >>

\* return results
migrateDataReturn ==
    /\ pc = "md_loop"
    /\ ti > Len(tables)
    /\ pc' = "md_done"
    /\ UNCHANGED << envVars, sideVars, tgtRows, leased, caller, mdVars, ti, mt, mtOutcome,
                    batches, tgtAtEntry, replVars, adapterVars >>

----------------------------------------------------------------------------
(* The migration engine on two opened handles *)

InitEnv ==
    /\ srcVendor \in VendorTags
    /\ tgtVendor \in VendorTags
    /\ srcKind = [n \in ObjectNames |-> "TABLE"]
    /\ \E k \in [ObjectNames -> 0..MaxRows] :
          srcRows = [n \in ObjectNames |-> RowsOf(n, k[n])]
    /\ \E p \in 0..MaxPre : tgtRows = [n \in ObjectNames |-> PreRows(n, p)]
    /\ leased = 0

\* nothing requested of the other components yet; new StorageService(dataDir) on a
\* fresh data directory: CREATE TABLE IF NOT EXISTS connections leaves an empty table
ConnectionIds == {"c1", "c2"}
NoRequest == [phase |-> "none"]
NoPair == [op |-> "none"]
NoAnalysis == [op |-> "none"]
NoOp == [op |-> "none"]

InitIdle ==
    /\ request = NoRequest
    /\ pair = NoPair
    /\ analysis = NoAnalysis
    /\ connections = << >>
    /\ lastOp = [id \in ConnectionIds |-> NoOp]
    /\ got = NoOp
    /\ contexts = << >>
    /\ ctxSaved = [id \in ConnectionIds |-> NoOp]
    /\ registry = << >>
    /\ running = FALSE
    /\ argv = << >>
    /\ reply = NoOp
    /\ pc = "idle"
    /\ caller = "none"
    /\ tables = << >>
    /\ truncateTarget = FALSE
    /\ ti = 0
    /\ results = << >>
    /\ mt = NoFrame
    /\ mtOutcome = NoOutcome
    /\ batches = << >>
    /\ tgtAtEntry = tgtRows
    /\ settled = << >>
    /\ listing = << >>
    /\ report = << >>
    /\ steps = << >>
    /\ call = [op |-> "none"]
    /\ ncalls = 0

InitMig == InitEnv /\ InitIdle

NextMig ==
    \/ migrateTableCall
    \/ mtDescribe
    \/ mtQuery
    \/ mtInsertBatch
    \/ mtReturn
    \/ mtDirectDone
    \/ migrateDataCall
    \/ migrateDataNext
    \/ migrateDataRecord
    \/ migrateDataReturn

SpecMig == InitMig /\ [][NextMig]_vars

----------------------------------------------------------------------------
(* Properties of the migration engine (checked under SpecMig) *)

\* C1: the report of migrateData has exactly one entry per requested table, in
\* the requested order (entry i names table i), whichever per-table copies
\* fail: while the loop runs the report is the report of the tables done so
\* far, and the returned report covers the whole list.
C1_ReportOneToOne ==
    pc \in {"md_loop", "md_done"} =>
        /\ Len(results) = ti - 1
        /\ \A i \in 1..Len(results) : results[i].table = tables[i]
        /\ pc = "md_done" => Len(results) = Len(tables)

\* a returned report of a list that names a table twice, with a failed copy in it
C1_Witness ==
    /\ pc = "md_done"
    /\ Len(tables) >= 2
    /\ tables[1] = tables[2]
    /\ \E i \in 1..Len(results) : results[i].status = "error"
    /\ \E i \in 1..Len(results) : results[i].status = "success"

IsSupportedPair == srcVendor \in SupportedVendors /\ tgtVendor \in SupportedVendors

AllRowsIn(rows, stored) == \A k \in DOMAIN rows : rows[k] \in Range(stored)

\* C2: in the report migrateData returns, an entry has status success exactly
\* when its migrateTable call resolved and status error exactly when it
\* rejected, every error entry carries a non-empty message, and the rows of
\* every table reported as copied are in the target whatever happened to the
\* tables after it.
C2_StatusMessageAndRowsKept ==
    (pc = "md_done" /\ IsSupportedPair) =>
        \A i \in 1..Len(results) :
            /\ results[i].status = "success" <=> settled[i] = "resolved"
            /\ results[i].status = "error" <=> settled[i] = "rejected"
            /\ results[i].status = "error" => results[i].error # ""
            /\ results[i].status = "success" =>
                   AllRowsIn(srcRows[tables[i]], tgtRows[tables[i]])

\* C3: a resolved migrateTable over a source table of n <= 100000 rows reports
\* rows = n and the target table has gained exactly those n rows, for every
\* supported source/target vendor pair.
C3_MigrateTableCopiesAll ==
    ( /\ pc = "mt_settled"
      /\ mtOutcome.state = "resolved"
      /\ IsSupportedPair
      /\ Len(srcRows[mt.table]) <= MigrateCap ) =>
        /\ mtOutcome.rows = Len(srcRows[mt.table])
        /\ tgtRows[mt.target] = tgtAtEntry[mt.target] \o srcRows[mt.table]

\* the sum of the counts the target's insertBatch returned for the batches bs,
\* each of which it completed
RECURSIVE InsertedCounts(_)
InsertedCounts(bs) ==
    IF bs = << >> THEN 0
    ELSE insertBatch(tgtVendor, Head(bs), TRUE).value + InsertedCounts(Tail(bs))

\* C23: the rows value returned by a resolved migrateTable call equals the sum
\* of the inserted counts returned by the target's insertBatch calls made during
\* that call, i.e. the number of rows the target reported as written.
C23_RowsIsSumOfInsertedCounts ==
    mtOutcome.state = "resolved" => mtOutcome.rows = InsertedCounts(batches)

\* C24: for n fetched source rows and batchSize b >= 1, migrateTable calls the
\* target's insertBatch exactly ceil(n/b) times (zero times when n = 0,
\* returning rows = 0 immediately), with consecutive slices of the fetched rows
\* in fetch order, every slice of size b except possibly the last, so that each
\* fetched row is passed to insertBatch exactly once.
C24_CeilBatches ==
    (mtOutcome.state = "resolved" /\ mt.batchSize >= 1) =>
        LET n == Len(mt.rows)
            b == mt.batchSize
            k == Len(batches)
        IN  /\ k = (n + b - 1) \div b
            /\ n = 0 => (k = 0 /\ mtOutcome.rows = 0)
            /\ \A j \in 1..k :
                  /\ j < k => Len(batches[j]) = b
                  /\ Len(batches[j]) \in 1..b
                  /\ \A x \in 1..Len(batches[j]) : batches[j][x] = mt.rows[(j - 1) * b + x]
            /\ \A i \in 1..n :
                  Cardinality({ jx \in (1..k) \X (1..n) :
                                   /\ jx[2] <= Len(batches[jx[1]])
                                   /\ (jx[1] - 1) * b + jx[2] = i }) = 1

\* a resolved copy of two fetched rows in two batches of one row
C24_Witness ==
    /\ mtOutcome.state = "resolved"
    /\ mt.batchSize = 1
    /\ Len(mt.rows) = 2
    /\ Len(batches) = 2
    /\ batches[2] = << mt.rows[2] >>

\* C15: in migrateTable, when insertBatch fails on batch k the call rejects
\* with that failure, no batch after k is attempted, and the rows written by
\* batches 1..k-1 remain in the target: nothing is rolled back.
C15_BatchFailureAborts ==
    (mtOutcome.state = "rejected" /\ batches # << >>) =>
        LET k == Len(batches)
            written == slice(mt.rows, 0, (k - 1) * mt.batchSize)
        IN  /\ mtOutcome.error = NativeMsg
            /\ mt.i = (k - 1) * mt.batchSize
            /\ \A j \in 1..k :
                  batches[j] = slice(mt.rows, (j - 1) * mt.batchSize, j * mt.batchSize)
            /\ Len(tgtRows[mt.target]) >= Len(tgtAtEntry[mt.target]) + Len(written)
            /\ SubSeq(tgtRows[mt.target], 1, Len(tgtAtEntry[mt.target]) + Len(written))
                   = tgtAtEntry[mt.target] \o written

\* the second batch of a copy failed after the first was written
C15_Witness ==
    /\ pc = "mt_settled"
    /\ mtOutcome.state = "rejected"
    /\ Len(batches) = 2
    /\ Len(mt.rows) >= 2
    /\ Len(tgtRows[mt.target]) = Len(tgtAtEntry[mt.target]) + 1

----------------------------------------------------------------------------
(* DatabaseService.listTables / listPrimaryKeys *)

\* the catalogue in name order
NameOrder == << "A", "B" >>

TableInfo(n, t) == [name |-> n, type |-> t]

\* all_tables / user_tables hold tables only; every row becomes type 'TABLE'
listOracleTables(kinds) ==
    [k \in 1..Len(SelectSeq(NameOrder, LAMBDA n : kinds[n] = "TABLE")) |->
        TableInfo(SelectSeq(NameOrder, LAMBDA n : kinds[n] = "TABLE")[k], "TABLE")]

\* information_schema.tables WHERE table_type = 'BASE TABLE'; type 'TABLE'
listPostgresTables(kinds) ==
    [k \in 1..Len(SelectSeq(NameOrder, LAMBDA n : kinds[n] = "TABLE")) |->
        TableInfo(SelectSeq(NameOrder, LAMBDA n : kinds[n] = "TABLE")[k], "TABLE")]

\* SHOW TABLES FROM db lists tables and views; every row becomes type 'TABLE'
listMySqlTables(kinds) == [k \in 1..Len(NameOrder) |-> TableInfo(NameOrder[k], "TABLE")]

\* information_schema.tables of the schema (no table_type filter) holds tables
\* and views; every row becomes type 'TABLE'
listSqlServerTables(kinds) == [k \in 1..Len(NameOrder) |-> TableInfo(NameOrder[k], "TABLE")]

\* sqlite_master WHERE type IN ('table', 'view'); type from the row's type
listSqliteTables(kinds) ==
    [k \in 1..Len(NameOrder) |->
        TableInfo(NameOrder[k], IF kinds[NameOrder[k]] = "TABLE" THEN "TABLE" ELSE "VIEW")]

listTables(vendor, kinds, nativeOk) ==
    IF vendor \notin SupportedVendors THEN Throws("Vendor no soportado: " \o vendor)
    ELSE IF ~nativeOk THEN Throws(NativeMsg)
    ELSE Returns(CASE vendor = "oracle" -> listOracleTables(kinds)
                   [] vendor = "postgresql" -> listPostgresTables(kinds)
                   [] vendor \in {"mysql", "mariadb"} -> listMySqlTables(kinds)
                   [] vendor = "sqlserver" -> listSqlServerTables(kinds)
                   [] vendor = "sqlite" -> listSqliteTables(kinds))

\* listPrimaryKeys(tableName): the key columns; a native failure reaches the caller
listPrimaryKeys(vendor, nativeOk) ==
    IF vendor \notin SupportedVendors THEN Throws("Vendor no soportado: " \o vendor)
    ELSE IF ~nativeOk THEN Throws(NativeMsg)
    ELSE Returns(<< "ID" >>)

----------------------------------------------------------------------------
(* The replicate_database tool handler *)

Line(kind, table, rows, msg) == [kind |-> kind, table |-> table, rows |-> rows, msg |-> msg]
Step(i, table, what) == [index |-> i, table |-> table, step |-> what]

\* const tables = await source.listTables(); a failure leaves through the outer catch
replicateCall ==
    /\ pc = "idle"
    /\ \E nativeOk \in BOOLEAN :
          LET r == listTables(srcVendor, srcKind, nativeOk)
          IN  IF r.ok
              THEN /\ listing' = r.value
                   /\ ti' = 1
                   /\ pc' = "rp_loop"
              ELSE /\ pc' = "rp_failed"
                   /\ UNCHANGED << listing, ti >>
    /\ report' = << >>
    /\ steps' = << >>
    /\ UNCHANGED << envVars, sideVars, tgtRows, leased, caller, mdVars, mt, mtOutcome, batches,
                    tgtAtEntry, adapterVars >>

\* for (const table of tables): a VIEW entry is skipped, else the first push
rpNext ==
    /\ pc = "rp_loop"
    /\ ti <= Len(listing)
    /\ IF listing[ti].type = "VIEW"
       THEN /\ ti' = ti + 1
            /\ UNCHANGED << pc, report, steps >>
       ELSE /\ report' = Append(report, Line("processing", listing[ti].name, 0, ""))
            /\ steps' = Append(steps, Step(ti, listing[ti].name, "processing"))
            /\ pc' = "rp_describe"
            /\ UNCHANGED ti
    /\ UNCHANGED << envVars, sideVars, tgtRows, leased, caller, mdVars, mt, mtOutcome, batches,
                    tgtAtEntry, listing, adapterVars >>

\* the outer catch of the loop body: push the error line, go on with the next table
rpCatch(msg, what) ==
    /\ report' = Append(report, Line("error", listing[ti].name, 0, msg))
    /\ steps' = Append(steps, Step(ti, listing[ti].name, what))
    /\ ti' = ti + 1
    /\ pc' = "rp_loop"

\* const columns = await source.describeTable(table.name)
rpDescribe ==
    /\ pc = "rp_describe"
    /\ \E nativeOk \in BOOLEAN :
          LET r == describeTable(srcVendor, nativeOk)
          IN  IF r.ok
              THEN /\ steps' = Append(steps, Step(ti, listing[ti].name, "describe"))
                   /\ pc' = "rp_pks"
                   /\ UNCHANGED << report, ti >>
              ELSE rpCatch(r.error, "describe_failed")
    /\ UNCHANGED << envVars, sideVars, tgtRows, leased, caller, mdVars, mt, mtOutcome, batches,
                    tgtAtEntry, listing, adapterVars >>

\* const pks = await source.listPrimaryKeys(table.name)
rpPrimaryKeys ==
    /\ pc = "rp_pks"
    /\ \E nativeOk \in BOOLEAN :
          LET r == listPrimaryKeys(srcVendor, nativeOk)
          IN  IF r.ok
              THEN /\ steps' = Append(steps, Step(ti, listing[ti].name, "primaryKeys"))
                   /\ pc' = "rp_ddl"
                   /\ UNCHANGED << report, ti >>
              ELSE rpCatch(r.error, "primaryKeys_failed")
    /\ UNCHANGED << envVars, sideVars, tgtRows, leased, caller, mdVars, mt, mtOutcome, batches,
                    tgtAtEntry, listing, adapterVars >>

\* a handler whose DDL failure leaves through the outer catch
rpExecDDL_FailureFatal ==
    /\ pc = "rp_ddl"
    /\ \E nativeOk \in BOOLEAN :
          LET r == executeQuery(tgtVendor, << >>, DefaultMaxRows, nativeOk)
          IN  IF r.ok
              THEN /\ report' = Append(report, Line("created", listing[ti].name, 0, ""))
                   /\ steps' = Append(Append(steps, Step(ti, listing[ti].name, "ddl")),
                                      Step(ti, listing[ti].name, "migrateTable"))
                   /\ migrateTableEnter(listing[ti].name, "", DefaultBatchSize, "replicate")
                   /\ UNCHANGED ti
              ELSE /\ rpCatch(r.error, "ddl_failed")
                   /\ UNCHANGED << mt, mtOutcome, batches, tgtAtEntry, caller >>
    /\ UNCHANGED << envVars, sideVars, tgtRows, leased, mdVars, listing, adapterVars >>

\* generateCreateTable, then the inner try: await target.executeQuery(ddl) and the
\* note pushed by the try or by its catch; then migrator.migrateTable(table.name)
rpExecDDL ==
    /\ pc = "rp_ddl"
    /\ \E nativeOk \in BOOLEAN :
          LET r == executeQuery(tgtVendor, << >>, DefaultMaxRows, nativeOk)
          IN  /\ report' = Append(report,
                                  IF r.ok THEN Line("created", listing[ti].name, 0, "")
                                  ELSE Line("skipped", listing[ti].name, 0, r.error))
              /\ steps' = Append(Append(steps, Step(ti, listing[ti].name,
                                                    IF r.ok THEN "ddl" ELSE "ddl_failed")),
                                 Step(ti, listing[ti].name, "migrateTable"))
    /\ migrateTableEnter(listing[ti].name, "", DefaultBatchSize, "replicate")
    /\ UNCHANGED << envVars, sideVars, tgtRows, leased, mdVars, ti, listing, adapterVars >>

\* a handler that stops at the first table whose copy fails
rpRecord_StopsOnFailure ==
    /\ pc = "mt_settled"
    /\ caller = "replicate"
    /\ IF mtOutcome.state = "resolved"
       THEN /\ report' = Append(report, Line("migrated", listing[ti].name, mtOutcome.rows, ""))
            /\ steps' = Append(steps, Step(ti, listing[ti].name, "migrated"))
            /\ ti' = ti + 1
            /\ pc' = "rp_loop"
       ELSE /\ report' = Append(report, Line("error", listing[ti].name, 0, mtOutcome.error))
            /\ steps' = Append(steps, Step(ti, listing[ti].name, "migrate_failed"))
            /\ ti' = Len(listing) + 1
            /\ pc' = "rp_loop"
    /\ UNCHANGED << envVars, sideVars, tgtRows, leased, caller, mdVars, mt, mtOutcome, batches,
                    tgtAtEntry, listing, adapterVars >>

\* migrateTable settled: the Migrated line, or the outer catch
rpRecord ==
    /\ pc = "mt_settled"
    /\ caller = "replicate"
    /\ IF mtOutcome.state = "resolved"
       THEN /\ report' = Append(report, Line("migrated", listing[ti].name, mtOutcome.rows, ""))
            /\ steps' = Append(steps, Step(ti, listing[ti].name, "migrated"))
            /\ ti' = ti + 1
            /\ pc' = "rp_loop"
       ELSE rpCatch(mtOutcome.error, "migrate_failed")
    /\ UNCHANGED << envVars, sideVars, tgtRows, leased, caller, mdVars, mt, mtOutcome, batches,
                    tgtAtEntry, listing, adapterVars >>

\* return { content: [{ text: report.join('\n') }] }
rpReturn ==
    /\ pc = "rp_loop"
    /\ ti > Len(listing)
    /\ pc' = "rp_done"
    /\ UNCHANGED << envVars, sideVars, tgtRows, leased, caller, mdVars, ti, mt, mtOutcome,
                    batches, tgtAtEntry, replVars, adapterVars >>

InitReplEnv ==
    /\ srcVendor \in VendorTags
    /\ tgtVendor \in VendorTags
    /\ srcKind \in [ObjectNames -> {"TABLE", "VIEW"}]
    /\ \E k \in [ObjectNames -> 0..MaxRows] :
          srcRows = [n \in ObjectNames |-> RowsOf(n, k[n])]
    /\ \E p \in 0..MaxPre : tgtRows = [n \in ObjectNames |-> PreRows(n, p)]
    /\ leased = 0

InitRepl == InitReplEnv /\ InitIdle

NextRepl ==
    \/ replicateCall
    \/ rpNext
    \/ rpDescribe
    \/ rpPrimaryKeys
    \/ rpExecDDL
    \/ mtDescribe
    \/ mtQuery
    \/ mtInsertBatch
    \/ mtReturn
    \/ rpRecord
    \/ rpReturn

SpecRepl == InitRepl /\ [][NextRepl]_vars

----------------------------------------------------------------------------
(* Properties of replicate_database (checked under SpecRepl) *)

\* C5: replicateDatabase never processes a view: no report line names a source
\* object that is a view, and no view is described, has DDL generated for it or
\* is passed to migrateTable, for every vendor.
C5_NoViewProcessed ==
    /\ \A k \in DOMAIN report : srcKind[report[k].table] # "VIEW"
    /\ \A k \in DOMAIN steps : srcKind[steps[k].table] # "VIEW"

NonViews(infos) == SelectSeq(infos, LAMBDA t : t.type # "VIEW")
Names(infos) == [k \in 1..Len(infos) |-> infos[k].name]
ProcessingLines == SelectSeq(report, LAMBDA l : l.kind = "processing")
ProcessedTables == [k \in 1..Len(ProcessingLines) |-> ProcessingLines[k].table]
TerminalSteps == {"describe_failed", "primaryKeys_failed", "migrated", "migrate_failed"}

\* the listing entries the loop has reached
Reached ==
    SubSeq(listing, 1, IF pc \in {"idle", "rp_failed", "rp_loop", "rp_done"} THEN ti - 1 ELSE ti)

\* C6: replicateDatabase processes the non-view tables one after another in
\* listing order (a step of a later table follows only a finished earlier
\* table), and a failure in a step of one table is recorded without stopping
\* the loop: the 'Processing table' lines are those of the non-view entries
\* reached so far, in listing order, and of all of them when the handler returns.
C6_SequentialAndComplete ==
    /\ ProcessedTables = Names(NonViews(Reached))
    /\ pc = "rp_done" => ProcessedTables = Names(NonViews(listing))
    /\ \A k \in 1..(Len(steps) - 1) :
          /\ steps[k].index <= steps[k + 1].index
          /\ steps[k].index < steps[k + 1].index =>
                /\ steps[k].step \in TerminalSteps
                /\ steps[k + 1].step = "processing"
    /\ \A k \in DOMAIN steps :
          steps[k].step \in {"describe_failed", "primaryKeys_failed", "migrate_failed"} =>
              \E j \in DOMAIN report :
                  report[j].kind = "error" /\ report[j].table = steps[k].table

\* the handler returned after a failed first table and a processed second one
C6_Witness ==
    /\ pc = "rp_done"
    /\ Len(NonViews(listing)) >= 2
    /\ \E k \in DOMAIN steps : steps[k].index = 1 /\ steps[k].step = "migrate_failed"
    /\ \E k \in DOMAIN steps : steps[k].index = 2 /\ steps[k].step = "migrated"

\* C7: when executing the generated CREATE TABLE statement on the target fails,
\* the failure is recorded as a note of the report (with the error's message)
\* and migrateTable is still called for that table.
C7_DDLFailureNotFatal ==
    \A k \in DOMAIN steps :
        steps[k].step = "ddl_failed" =>
            /\ k < Len(steps)
            /\ steps[k + 1] = Step(steps[k].index, steps[k].table, "migrateTable")
            /\ \E j \in DOMAIN report :
                  /\ report[j].kind = "skipped"
                  /\ report[j].table = steps[k].table
                  /\ report[j].msg # ""

\* a table whose DDL failed and whose rows were then copied
C7_Witness ==
    \E k \in DOMAIN steps :
        /\ steps[k].step = "ddl_failed"
        /\ \E j \in DOMAIN report :
              /\ report[j].kind = "migrated"
              /\ report[j].table = steps[k].table
              /\ report[j].rows > 0

----------------------------------------------------------------------------
(* The vendor adapter on one opened handle: calls made one after another *)

\* native calls of an Oracle operation of the form
\*   conn = await pool.getConnection(); try { execute } finally { await conn.close() }
\* (a name ending in ! is a call that failed)
oracleScopedCalls(acqOk, execOk) ==
    IF ~acqOk THEN << "getConnection!" >>
    ELSE << "getConnection", IF execOk THEN "execute" ELSE "execute!", "close" >>

\* native calls of the other vendors' operations: one driver call
poolCalls(execOk) == << IF execOk THEN "query" ELSE "query!" >>

\* native calls of the Oracle branch of healthCheck: getConnection, execute and
\* close in a row inside the method's try, with no finally
healthCheckOracleCalls(acqOk, execOk, closeOk) ==
    IF ~acqOk THEN << "getConnection!" >>
    ELSE IF ~execOk THEN << "getConnection", "execute!" >>
    ELSE << "getConnection", "execute", IF closeOk THEN "close" ELSE "close!" >>

healthCheckCalls(vendor, acqOk, execOk, closeOk) ==
    CASE vendor = "oracle" -> healthCheckOracleCalls(acqOk, execOk, closeOk)
      [] vendor \in {"postgresql", "mysql", "mariadb", "sqlite"} -> poolCalls(execOk)
      [] OTHER -> << >>

Failed(calls) ==
    \E i \in DOMAIN calls : calls[i] \in {"getConnection!", "execute!", "close!", "query!"}

Count(calls, name) == Cardinality({ i \in DOMAIN calls : calls[i] = name })

\* connections acquired and not closed by a sequence of native calls
leaseDelta(calls) == Count(calls, "getConnection") - (Count(calls, "close") + Count(calls, "close!"))

\* a healthCheck without the catch
healthCheck_Rethrows(vendor, acqOk, execOk, closeOk) ==
    IF Failed(healthCheckCalls(vendor, acqOk, execOk, closeOk))
    THEN [settled |-> "rejected", status |-> "none"]
    ELSE [settled |-> "resolved", status |-> "healthy"]

\* healthCheck(): the whole body is in one try whose catch returns 'unhealthy'
healthCheck(vendor, acqOk, execOk, closeOk) ==
    IF Failed(healthCheckCalls(vendor, acqOk, execOk, closeOk))
    THEN [settled |-> "resolved", status |-> "unhealthy"]
    ELSE [settled |-> "resolved", status |-> "healthy"]

scopedCalls(vendor, acqOk, execOk) ==
    CASE vendor = "oracle" -> oracleScopedCalls(acqOk, execOk)
      [] vendor \in SupportedVendors \ {"oracle"} -> poolCalls(execOk)
      [] OTHER -> << >>

insertBatchCalls(vendor, rows, acqOk, execOk) ==
    IF rows = << >> \/ ~HasInsertBranch(vendor) THEN << >>
    ELSE scopedCalls(vendor, acqOk, execOk)

\* the SQL text of insertBatch as its sequence of lexical pieces, and the bound values

\* a piece of literal text, and an identifier between two quote characters
Text(t) == [text |-> t]
Quoted(id, by) == [quoted |-> id, by |-> by]

\* a quote that double-quotes for every vendor
quote_AlwaysDouble(vendor, id) == Quoted(id, "double-quote")

\* const quote = (id) => vendor is mysql or mariadb ? back-ticks around id : double quotes
quote(vendor, id) ==
    IF vendor = "mysql" \/ vendor = "mariadb" THEN Quoted(id, "back-tick")
    ELSE Quoted(id, "double-quote")

\* Array.prototype.join(', ') kept as pieces
join(s) == [k \in 1..(2 * Len(s) - 1) |-> IF k % 2 = 1 THEN s[(k + 1) \div 2] ELSE Text(",")]

RECURSIVE Flatten(_)
Flatten(ss) == IF ss = << >> THEN << >> ELSE Head(ss) \o Flatten(Tail(ss))

\* one parenthesized value-group of placeholders
group(placeholders) == << Text("(") >> \o join(placeholders) \o << Text(")") >>

\* the placeholders of row i (1-based) over n columns
rowPlaceholders(vendor, i, n) ==
    CASE vendor = "oracle" -> [j \in 1..n |-> Text(":" \o ToString(j - 1))]
      [] vendor = "postgresql" -> [j \in 1..n |-> Text("$" \o ToString((i - 1) * n + j))]
      [] OTHER -> [j \in 1..n |-> Text("?")]

\* sql of the vendor's branch; no text when rows is empty or the vendor has no branch
insertBatchSql(vendor, tableName, rows) ==
    IF rows = << >> \/ ~HasInsertBranch(vendor) THEN << >>
    ELSE LET dc == distinctColumns(rows)
             n == Len(dc)
             colNames == join([j \in 1..n |-> quote(vendor, dc[j])])
             groups == IF vendor \in {"oracle", "sqlite"}
                       THEN group(rowPlaceholders(vendor, 1, n))
                       ELSE Flatten([k \in 1..(2 * Len(rows) - 1) |->
                                       IF k % 2 = 1
                                       THEN group(rowPlaceholders(vendor, (k + 1) \div 2, n))
                                       ELSE << Text(",") >>])
         IN  << Text("INSERT INTO"), quote(vendor, tableName), Text("(") >> \o colNames
                 \o << Text(")"), Text("VALUES") >> \o groups

\* the values handed to the driver next to the text: one bind set per row
\* (oracle executeMany, sqlite insert.run), or one flat list (postgresql, mysql)
insertBatchBinds(vendor, rows) ==
    IF rows = << >> \/ ~HasInsertBranch(vendor) THEN << >>
    ELSE Flatten(bindValues(rows))

Caps == 0..MaxCap \cup {DefaultMaxRows}
NewBatches == { RowsOf("new", k) : k \in 0..MaxRows }

adapterExecuteQuery ==
    /\ pc = "idle"
    /\ ncalls < MaxCalls
    /\ \E t \in ObjectNames, maxRows \in Caps, acqOk \in BOOLEAN, execOk \in BOOLEAN :
          LET calls == scopedCalls(tgtVendor, acqOk, execOk)
              r == executeQuery(tgtVendor, tgtRows[t], maxRows, ~Failed(calls))
          IN  /\ call' = [op |-> "executeQuery", table |-> t, maxRows |-> maxRows,
                          ok |-> r.ok, rows |-> r.rows, rowCount |-> r.rowCount,
                          error |-> r.error, calls |-> calls]
              /\ leased' = leased + leaseDelta(calls)
    /\ ncalls' = ncalls + 1
    /\ UNCHANGED << envVars, sideVars, tgtRows, pc, caller, mdVars, ti, mt, mtOutcome, batches,
                    tgtAtEntry, replVars >>

adapterInsertBatch ==
    /\ pc = "idle"
    /\ ncalls < MaxCalls
    /\ \E t \in ObjectNames, rows \in NewBatches, acqOk \in BOOLEAN, execOk \in BOOLEAN :
          LET calls == insertBatchCalls(tgtVendor, rows, acqOk, execOk)
              r == insertBatch(tgtVendor, rows, ~Failed(calls))
          IN  /\ call' = [op |-> "insertBatch", table |-> t, rows |-> rows,
                          ok |-> r.ok, value |-> r.value, error |-> r.error,
                          calls |-> calls, before |-> tgtRows[t],
                          sql |-> insertBatchSql(tgtVendor, t, rows),
                          binds |-> insertBatchBinds(tgtVendor, rows)]
              /\ tgtRows' = [tgtRows EXCEPT ![t] =
                                insertBatchStored(tgtVendor, @, rows, ~Failed(calls))]
              /\ leased' = leased + leaseDelta(calls)
    /\ ncalls' = ncalls + 1
    /\ UNCHANGED << envVars, sideVars, pc, caller, mdVars, ti, mt, mtOutcome, batches,
                    tgtAtEntry, replVars >>

adapterDescribeTable ==
    /\ pc = "idle"
    /\ ncalls < MaxCalls
    /\ \E t \in ObjectNames, acqOk \in BOOLEAN, execOk \in BOOLEAN :
          LET calls == scopedCalls(tgtVendor, acqOk, execOk)
              r == describeTable(tgtVendor, ~Failed(calls))
          IN  /\ call' = [op |-> "describeTable", table |-> t, ok |-> r.ok,
                          value |-> r.value, error |-> r.error, calls |-> calls]
              /\ leased' = leased + leaseDelta(calls)
    /\ ncalls' = ncalls + 1
    /\ UNCHANGED << envVars, sideVars, tgtRows, pc, caller, mdVars, ti, mt, mtOutcome, batches,
                    tgtAtEntry, replVars >>

adapterHealthCheck ==
    /\ pc = "idle"
    /\ ncalls < MaxCalls
    /\ \E acqOk \in BOOLEAN, execOk \in BOOLEAN, closeOk \in BOOLEAN :
          LET calls == healthCheckCalls(tgtVendor, acqOk, execOk, closeOk)
              r == healthCheck(tgtVendor, acqOk, execOk, closeOk)
          IN  /\ call' = [op |-> "healthCheck", settled |-> r.settled,
                          status |-> r.status, calls |-> calls]
              /\ leased' = leased + leaseDelta(calls)
    /\ ncalls' = ncalls + 1
    /\ UNCHANGED << envVars, sideVars, tgtRows, pc, caller, mdVars, ti, mt, mtOutcome, batches,
                    tgtAtEntry, replVars >>

\* the four Oracle-only operations
OracleOnlyOps == {"listOraclePackages", "listPackageProcedures", "getOracleSource",
                  "getOracleErrors"}
OracleOnlyMsg == "Esta funcion solo esta disponible para Oracle"
OracleOnlyRejected == [ok |-> FALSE, error |-> OracleOnlyMsg, value |-> << >>, calls |-> << >>]

\* the rows a catalogue query of an Oracle-only operation finds
CatalogRows == { RowsOf("USER_OBJECTS", k) : k \in 0..1 }

\* const result = await this.executeQuery(sql, cap); return result.rows.map(...):
\* one entry per row returned; a failure of executeQuery leaves as executeQuery threw it
viaExecuteQuery(vendor, found, cap, acqOk, execOk) ==
    LET calls == scopedCalls(vendor, acqOk, execOk)
        r == executeQuery(vendor, found, cap, ~Failed(calls))
    IN  [ok |-> r.ok, error |-> r.error, value |-> r.rows, calls |-> calls]

listOraclePackages(vendor, found, acqOk, execOk) ==
    IF vendor # "oracle" THEN OracleOnlyRejected
    ELSE viaExecuteQuery(vendor, found, 1000, acqOk, execOk)

listPackageProcedures(vendor, found, acqOk, execOk) ==
    IF vendor # "oracle" THEN OracleOnlyRejected
    ELSE viaExecuteQuery(vendor, found, 1000, acqOk, execOk)

getOracleSource(vendor, found, acqOk, execOk) ==
    IF vendor # "oracle" THEN OracleOnlyRejected
    ELSE viaExecuteQuery(vendor, found, 10000, acqOk, execOk)

\* a getOracleErrors whose vendor test is inside its try
getOracleErrors_GuardInsideTry(vendor, found, acqOk, execOk) ==
    LET q == IF vendor # "oracle" THEN OracleOnlyRejected
             ELSE viaExecuteQuery(vendor, found, 100, acqOk, execOk)
    IN  IF q.ok THEN q ELSE [q EXCEPT !.ok = TRUE, !.error = "", !.value = << >>]

\* the vendor test, then try { executeQuery(sql, 100) ... } catch { return [] }
getOracleErrors(vendor, found, acqOk, execOk) ==
    IF vendor # "oracle" THEN OracleOnlyRejected
    ELSE LET q == viaExecuteQuery(vendor, found, 100, acqOk, execOk)
         IN  IF q.ok THEN q ELSE [q EXCEPT !.ok = TRUE, !.error = "", !.value = << >>]

oracleOnlyOp(op, vendor, found, acqOk, execOk) ==
    CASE op = "listOraclePackages" -> listOraclePackages(vendor, found, acqOk, execOk)
      [] op = "listPackageProcedures" -> listPackageProcedures(vendor, found, acqOk, execOk)
      [] op = "getOracleSource" -> getOracleSource(vendor, found, acqOk, execOk)
      [] op = "getOracleErrors" -> getOracleErrors(vendor, found, acqOk, execOk)

adapterOracleOnly ==
    /\ pc = "idle"
    /\ ncalls < MaxCalls
    /\ \E op \in OracleOnlyOps, found \in CatalogRows, acqOk \in BOOLEAN, execOk \in BOOLEAN :
          LET r == oracleOnlyOp(op, tgtVendor, found, acqOk, execOk)
          IN  /\ call' = [op |-> op, ok |-> r.ok, value |-> r.value, error |-> r.error,
                          calls |-> r.calls]
              /\ leased' = leased + leaseDelta(r.calls)
    /\ ncalls' = ncalls + 1
    /\ UNCHANGED << envVars, sideVars, tgtRows, pc, caller, mdVars, ti, mt, mtOutcome,
                    batches, tgtAtEntry, replVars >>

\* String.prototype.toUpperCase on the identifiers of the model
toUpperCase(s) ==
    CASE s = "app" -> "APP"
      [] s = "hr" -> "HR"
      [] s = "orders" -> "ORDERS"
      [] s = "customers" -> "CUSTOMERS"
      [] s = "from" -> "FROM"
      [] s = "delete" -> "DELETE"
      [] OTHER -> s

\* the Oracle accounts of the model (all_users), the session user, and the
\* built-in accounts the all-schema query leaves out
OracleUsers == {"APP", "HR", "SYS"}
UserName == "APP"
SystemAccounts == {"SYS", "SYSTEM", "OUTLN", "DIP", "ORACLE_OCM", "DBSNMP", "APPQOSSYS",
                   "WMSYS", "EXFSYS", "CTXSYS", "XDB", "ANONYMOUS", "ORDSYS", "ORDDATA",
                   "MDSYS", "LBACSYS", "DVSYS", "DVF", "GSMADMIN_INTERNAL", "OJVMSYS",
                   "OLAPSYS"}

\* all_tables in (owner, table_name) order; a catalogue is a subset of its entries
AllTablesOrder ==
    << [owner |-> "APP", name |-> "A"], [owner |-> "APP", name |-> "B"],
       [owner |-> "HR", name |-> "A"], [owner |-> "SYS", name |-> "A"] >>
OracleCatalogs == SUBSET Range(AllTablesOrder)
SchemaConfigs == {"", "app", "HR", "SYS"}

UserTablesQuery == "user_tables"
OwnerTablesQuery == "all_tables WHERE owner = :schema"
CurrentSchemaQuery == "SYS_CONTEXT('USERENV', 'CURRENT_SCHEMA')"
AllSchemasQuery == "all_tables WHERE owner IN (all_users NOT IN built-in accounts)"

\* ... FROM all_tables WHERE owner = :schema ORDER BY table_name (user_tables: owner = user)
ownedTables(cat, owner) ==
    SelectSeq(AllTablesOrder, LAMBDA e : e \in cat /\ e.owner = owner)

\* an all-schema query without the account filter
accessibleTables_Unfiltered(cat) ==
    SelectSeq(AllTablesOrder, LAMBDA e : e \in cat)

\* ... WHERE owner IN (SELECT username FROM all_users WHERE username NOT IN (...))
accessibleTables(cat) ==
    SelectSeq(AllTablesOrder,
              LAMBDA e : e \in cat /\ e.owner \in OracleUsers /\ e.owner \notin SystemAccounts)

\* rows.map(row => ({ name: row.TABLE_NAME, type: 'TABLE', schema: row.OWNER }))
oracleTableInfos(rows) ==
    [k \in 1..Len(rows) |-> [name |-> rows[k].name, type |-> "TABLE", schema |-> rows[k].owner]]

oracleListing(ok, error, value, executes, queries, first) ==
    [ok |-> ok, error |-> error, value |-> value, queries |-> queries, first |-> first,
     calls |-> << "getConnection" >> \o executes \o << "close" >>]

\* listOracleTables(pool, schema) on a catalogue: the first listing, and when it is
\* empty the current-schema lookup and, for an absent or current schema, the
\* all-schema listing; ok1..ok3: the three execute calls complete
listOracleTablesSchema(cat, schema, currentSchema, acqOk, ok1, ok2, ok3) ==
    LET q1 == IF schema # "" THEN OwnerTablesQuery ELSE UserTablesQuery
        first == IF schema # "" THEN ownedTables(cat, toUpperCase(schema))
                 ELSE ownedTables(cat, UserName)
    IN  IF ~acqOk
        THEN [ok |-> FALSE, error |-> NativeMsg, value |-> << >>, queries |-> << >>,
              first |-> << >>, calls |-> << "getConnection!" >>]
        ELSE IF ~ok1
        THEN oracleListing(FALSE, NativeMsg, << >>, << "execute!" >>, << q1 >>, << >>)
        ELSE IF Len(first) # 0
        THEN oracleListing(TRUE, "", oracleTableInfos(first), << "execute" >>, << q1 >>, first)
        ELSE IF ~ok2
        THEN oracleListing(FALSE, NativeMsg, << >>, << "execute", "execute!" >>,
                           << q1, CurrentSchemaQuery >>, first)
        ELSE IF ~(schema = "" \/ toUpperCase(schema) = currentSchema)
        THEN oracleListing(TRUE, "", oracleTableInfos(first), << "execute", "execute" >>,
                           << q1, CurrentSchemaQuery >>, first)
        ELSE IF ~ok3
        THEN oracleListing(FALSE, NativeMsg, << >>, << "execute", "execute", "execute!" >>,
                           << q1, CurrentSchemaQuery, AllSchemasQuery >>, first)
        ELSE oracleListing(TRUE, "", oracleTableInfos(accessibleTables(cat)),
                           << "execute", "execute", "execute" >>,
                           << q1, CurrentSchemaQuery, AllSchemasQuery >>, first)

\* listTables() on the handle: Oracle with its configured schema, the others by their catalogue
adapterListTables ==
    /\ pc = "idle"
    /\ ncalls < MaxCalls
    /\ \E acqOk \in BOOLEAN, ok1 \in BOOLEAN,
          cat \in IF tgtVendor = "oracle" THEN OracleCatalogs ELSE {{}},
          schema \in IF tgtVendor = "oracle" THEN SchemaConfigs ELSE {""},
          currentSchema \in IF tgtVendor = "oracle" THEN {"APP", "HR"} ELSE {""} :
       \E ok2 \in IF tgtVendor = "oracle" /\ acqOk /\ ok1 THEN BOOLEAN ELSE {TRUE} :
       \E ok3 \in IF tgtVendor = "oracle" /\ acqOk /\ ok1 /\ ok2 THEN BOOLEAN ELSE {TRUE} :
          LET o == listOracleTablesSchema(cat, schema, currentSchema, acqOk, ok1, ok2, ok3)
              calls == IF tgtVendor = "oracle" THEN o.calls ELSE scopedCalls(tgtVendor, acqOk, ok1)
              r == listTables(tgtVendor, srcKind, ~Failed(calls))
          IN  /\ call' = IF tgtVendor = "oracle"
                         THEN [op |-> "listTables", ok |-> o.ok, value |-> o.value,
                               error |-> o.error, calls |-> calls, queries |-> o.queries,
                               first |-> o.first, schema |-> schema,
                               currentSchema |-> currentSchema]
                         ELSE [op |-> "listTables", ok |-> r.ok, value |-> r.value,
                               error |-> r.error, calls |-> calls, queries |-> << >>,
                               first |-> << >>, schema |-> "", currentSchema |-> ""]
              /\ leased' = leased + leaseDelta(calls)
    /\ ncalls' = ncalls + 1
    /\ UNCHANGED << envVars, sideVars, tgtRows, pc, caller, mdVars, ti, mt, mtOutcome,
                    batches, tgtAtEntry, replVars >>

\* listForeignKeys(tableName): the edges; a native failure reaches the caller
listForeignKeys(vendor, nativeOk) ==
    IF vendor \notin SupportedVendors THEN Throws("Vendor no soportado: " \o vendor)
    ELSE IF ~nativeOk THEN Throws(NativeMsg)
    ELSE Returns(<< >>)

adapterListPrimaryKeys ==
    /\ pc = "idle"
    /\ ncalls < MaxCalls
    /\ \E t \in ObjectNames, acqOk \in BOOLEAN, execOk \in BOOLEAN :
          LET calls == scopedCalls(tgtVendor, acqOk, execOk)
              r == listPrimaryKeys(tgtVendor, ~Failed(calls))
          IN  /\ call' = [op |-> "listPrimaryKeys", table |-> t, ok |-> r.ok,
                          value |-> r.value, error |-> r.error, calls |-> calls]
              /\ leased' = leased + leaseDelta(calls)
    /\ ncalls' = ncalls + 1
    /\ UNCHANGED << envVars, sideVars, tgtRows, pc, caller, mdVars, ti, mt, mtOutcome,
                    batches, tgtAtEntry, replVars >>

adapterListForeignKeys ==
    /\ pc = "idle"
    /\ ncalls < MaxCalls
    /\ \E t \in ObjectNames, acqOk \in BOOLEAN, execOk \in BOOLEAN :
          LET calls == scopedCalls(tgtVendor, acqOk, execOk)
              r == listForeignKeys(tgtVendor, ~Failed(calls))
          IN  /\ call' = [op |-> "listForeignKeys", table |-> t, ok |-> r.ok,
                          value |-> r.value, error |-> r.error, calls |-> calls]
              /\ leased' = leased + leaseDelta(calls)
    /\ ncalls' = ncalls + 1
    /\ UNCHANGED << envVars, sideVars, tgtRows, pc, caller, mdVars, ti, mt, mtOutcome,
                    batches, tgtAtEntry, replVars >>

\* the query texts given to the sql_query tool
QueryTexts == [kind : {"SELECT", "DELETE"}, table : ObjectNames]
SyntaxMsg == "syntax error"

\* the table after the vendor's executor ran 'DELETE FROM t' given as sql: oracle
\* executes it on a pooled connection that is closed without commit, which rolls
\* it back; sqlserver executes it as given; mysql and mariadb accept the text
\* `${sql} LIMIT ${maxRows}` as a DELETE of at most maxRows rows; postgresql and
\* sqlite reject that text
deleteStored(vendor, stored, maxRows, nativeOk) ==
    IF ~nativeOk THEN stored
    ELSE CASE vendor = "sqlserver" -> << >>
           [] vendor \in {"mysql", "mariadb"} -> SubSeq(stored, Min(maxRows, Len(stored)) + 1, Len(stored))
           [] OTHER -> stored

\* executeQuery(sql, maxRows) of 'DELETE FROM t'
executeDelete(vendor, maxRows, nativeOk) ==
    IF ~HasQueryBranch(vendor) THEN Rejected("Error ejecutando query: Vendor no soportado: " \o vendor)
    ELSE IF ~nativeOk THEN Rejected("Error ejecutando query: " \o NativeMsg)
    ELSE IF vendor \in {"postgresql", "sqlite"} THEN Rejected("Error ejecutando query: " \o SyntaxMsg)
    ELSE Resolved(<< >>, 0)

\* case "sql_query": new DatabaseService(conn).executeQuery(query), any text
sql_query ==
    /\ pc = "idle"
    /\ ncalls < MaxCalls
    /\ \E query \in QueryTexts, acqOk \in BOOLEAN, execOk \in BOOLEAN :
          LET calls == scopedCalls(tgtVendor, acqOk, execOk)
              t == query.table
              r == IF query.kind = "SELECT"
                   THEN executeQuery(tgtVendor, tgtRows[t], DefaultMaxRows, ~Failed(calls))
                   ELSE executeDelete(tgtVendor, DefaultMaxRows, ~Failed(calls))
              after == IF query.kind = "SELECT" THEN tgtRows
                       ELSE [tgtRows EXCEPT ![t] =
                                deleteStored(tgtVendor, @, DefaultMaxRows, ~Failed(calls))]
          IN  /\ call' = [op |-> "sql_query", query |-> query, ok |-> r.ok, rows |-> r.rows,
                          error |-> r.error, calls |-> calls, before |-> tgtRows,
                          after |-> after]
              /\ tgtRows' = after
              /\ leased' = leased + leaseDelta(calls)
    /\ ncalls' = ncalls + 1
    /\ UNCHANGED << envVars, sideVars, pc, caller, mdVars, ti, mt, mtOutcome, batches,
                    tgtAtEntry, replVars >>

\* the sqlite branch of insertBatch, one insert.run at a time.  failRow = 0: every
\* run completes; failRow = k: the run of the k-th row throws.
\* the body handed to pool.transaction: for (const row of data) { insert.run(values); count++ }
insertManyBody(stored, rows, failRow) ==
    LET done == IF failRow = 0 THEN rows ELSE SubSeq(rows, 1, failRow - 1)
    IN  [threw |-> failRow # 0,
         runs |-> IF failRow = 0 THEN Len(rows) ELSE failRow,
         count |-> Len(done),
         stored |-> IF done = << >> THEN stored
                    ELSE stored \o insertedRows(distinctColumns(rows), bindValues(done))]

\* a transaction wrapper that commits what was written before the throw
transaction_CommitsOnThrow(before, body) == body

\* pool.transaction(fn)(rows): BEGIN, fn, COMMIT; ROLLBACK and rethrow when fn throws
transaction(before, body) ==
    IF body.threw THEN [body EXCEPT !.stored = before] ELSE body

sqliteInsertBatch ==
    /\ pc = "idle"
    /\ ncalls < MaxCalls
    /\ tgtVendor = "sqlite"
    /\ \E t \in ObjectNames, rows \in NewBatches \ {<< >>}, prepareOk \in BOOLEAN :
          \E failRow \in IF prepareOk THEN 0..Len(rows) ELSE {0} :
             LET tx == transaction(tgtRows[t], insertManyBody(tgtRows[t], rows, failRow))
                 ok == prepareOk /\ ~tx.threw
                 after == IF prepareOk THEN tx.stored ELSE tgtRows[t]
             IN  /\ call' = [op |-> "insertBatch (sqlite)", table |-> t, rows |-> rows,
                             prepares |-> 1, runs |-> IF prepareOk THEN tx.runs ELSE 0,
                             failRow |-> failRow, ok |-> ok,
                             value |-> IF ok THEN tx.count ELSE 0,
                             error |-> IF ok THEN "" ELSE NativeMsg,
                             before |-> tgtRows[t], after |-> after]
                 /\ tgtRows' = [tgtRows EXCEPT ![t] = after]
    /\ ncalls' = ncalls + 1
    /\ UNCHANGED << envVars, sideVars, leased, pc, caller, mdVars, ti, mt, mtOutcome, batches,
                    tgtAtEntry, replVars >>

InitAdapter ==
    /\ tgtVendor \in VendorTags
    /\ srcVendor = tgtVendor
    /\ srcKind = [n \in ObjectNames |-> "TABLE"]
    /\ srcRows = [n \in ObjectNames |-> << >>]
    /\ \E p \in 0..MaxPre : tgtRows = [n \in ObjectNames |-> PreRows(n, p)]
    /\ leased = 0
    /\ InitIdle

NextAdapter ==
    \/ adapterExecuteQuery
    \/ adapterInsertBatch
    \/ adapterDescribeTable
    \/ adapterHealthCheck
    \/ adapterOracleOnly
    \/ adapterListTables
    \/ adapterListPrimaryKeys
    \/ adapterListForeignKeys
    \/ sql_query
    \/ sqliteInsertBatch

SpecAdapter == InitAdapter /\ [][NextAdapter]_vars

----------------------------------------------------------------------------
(* Properties of the vendor adapter (checked under SpecAdapter) *)

\* C4: for each supported vendor, insertBatch(t, rows) with a non-empty rows
\* list either fails or inserts every row and returns the inserted count, so
\* that a following executeQuery selecting from t returns the inserted rows,
\* equal by column-keyed value.
C4_InsertBatchAllOrFail ==
    ( /\ call.op = "insertBatch"
      /\ call.rows # << >>
      /\ tgtVendor \in SupportedVendors
      /\ call.ok ) =>
        /\ call.value = Len(call.rows)
        /\ tgtRows[call.table] = call.before \o call.rows
        /\ executeQuery(tgtVendor, tgtRows[call.table], MigrateCap, TRUE).rows
               = call.before \o call.rows

\* C8: healthCheck never fails: for every vendor tag and every failure of a
\* native call made during the probe the call resolves with a status value,
\* unhealthy when a native call failed; it never rejects.
C8_HealthCheckNeverFails ==
    call.op = "healthCheck" =>
        /\ call.settled = "resolved"
        /\ call.status \in {"healthy", "unhealthy"}
        /\ Failed(call.calls) => call.status = "unhealthy"

\* a probe whose native call failed
C8_Witness ==
    /\ call.op = "healthCheck"
    /\ Failed(call.calls)
    /\ call.status = "unhealthy"

\* C9: every adapter call that leases a connection from the Oracle pool
\* releases it before it returns, on the success path and on every failure
\* path: whenever no adapter call is in progress no connection is leased.
C9_NoLeasedConnection == leased = 0

\* C10: for every vendor and every maxRows value, a resolved executeQuery(sql,
\* maxRows) returns rows of length at most maxRows, and rowCount is that length.
C10_RowsWithinCap ==
    (call.op = "executeQuery" /\ call.ok) =>
        /\ Len(call.rows) <= call.maxRows
        /\ call.rowCount = Len(call.rows)

\* C12: on a handle whose vendor is not Oracle, listOraclePackages,
\* listPackageProcedures, getOracleSource and getOracleErrors are each rejected
\* with the Oracle-only error and issue no query to the database.
C12_OracleOnlyRejected ==
    (call.op \in OracleOnlyOps /\ tgtVendor # "oracle") =>
        /\ ~call.ok
        /\ call.error = OracleOnlyMsg
        /\ call.calls = << >>

\* getOracleErrors, the operation with a catch, called on a pooled vendor
C12_Witness ==
    /\ call.op = "getOracleErrors"
    /\ tgtVendor = "postgresql"
    /\ ~call.ok

\* C13: Oracle listTables: when the listing for the requested schema (the
\* user's own tables when none is requested) is empty and the requested schema
\* is absent or is the session's current schema, the adapter re-queries across
\* all accessible schemas and no returned entry is owned by a built-in service
\* account; when the first listing is non-empty, or the requested schema is
\* another schema, the first listing is returned and no all-schema query is made.
C13_OracleListingFallback ==
    (call.op = "listTables" /\ tgtVendor = "oracle" /\ call.ok) =>
        IF /\ Len(call.first) = 0
           /\ call.schema = "" \/ toUpperCase(call.schema) = call.currentSchema
        THEN /\ AllSchemasQuery \in Range(call.queries)
             /\ \A k \in DOMAIN call.value : call.value[k].schema \notin SystemAccounts
        ELSE /\ AllSchemasQuery \notin Range(call.queries)
             /\ Len(call.value) = Len(call.first)
             /\ \A k \in DOMAIN call.value :
                   /\ call.value[k].name = call.first[k].name
                   /\ call.value[k].schema = call.first[k].owner

\* an empty own schema, with tables of another user and of SYS in the catalogue
C13_Witness ==
    /\ call.op = "listTables"
    /\ tgtVendor = "oracle"
    /\ call.ok
    /\ call.schema = "app"
    /\ call.currentSchema = "APP"
    /\ Len(call.first) = 0
    /\ Len(call.value) = 1
    /\ call.value[1].schema = "HR"
    /\ Len(call.queries) = 3

ValueTexts(rows) ==
    UNION { {ToString(rows[i].ID), rows[i].SRC, "'" \o rows[i].SRC \o "'"} : i \in DOMAIN rows }

\* C14: the SQL text generated by insertBatch quotes the table name and every
\* column name with back-ticks when the vendor is mysql or mariadb and with
\* double quotes for every other vendor, and no row value appears in the
\* text: the values are passed as bound parameters only.
C14_QuotingAndBinds ==
    (call.op = "insertBatch" /\ call.sql # << >>) =>
        LET ids == {call.table} \cup Range(distinctColumns(call.rows))
            by == IF tgtVendor \in {"mysql", "mariadb"} THEN "back-tick" ELSE "double-quote"
        IN  /\ call.sql[2] = Quoted(call.table, by)
            /\ \A c \in Range(distinctColumns(call.rows)) : Quoted(c, by) \in Range(call.sql)
            /\ \A k \in DOMAIN call.sql :
                  \/ call.sql[k] \in { Quoted(id, by) : id \in ids }
                  \/ /\ DOMAIN call.sql[k] = {"text"}
                     /\ call.sql[k].text \notin ValueTexts(call.rows) \cup ids
            /\ \A i \in DOMAIN call.rows, j \in DOMAIN ColOrder :
                  call.binds[(i - 1) * Len(ColOrder) + j] = call.rows[i][ColOrder[j]]

\* a two-row batch sent to a MySQL-family handle
C14_Witness ==
    /\ call.op = "insertBatch"
    /\ tgtVendor = "mariadb"
    /\ Len(call.rows) = 2
    /\ call.sql[2] = Quoted(call.table, "back-tick")
    /\ Len(call.binds) = 4

DispatchOps == {"executeQuery", "listTables", "describeTable", "listPrimaryKeys",
                "listForeignKeys", "insertBatch"}
UnsupportedVendorErrors(vendor) ==
    {"Vendor no soportado: " \o vendor,
     "Error ejecutando query: " \o ("Vendor no soportado: " \o vendor)}

\* the vendor tags the operation dispatches on
HasBranch(op, vendor) ==
    IF op = "insertBatch" THEN HasInsertBranch(vendor) ELSE vendor \in SupportedVendors

\* C18: each vendor-dispatching operation that can fail (executeQuery,
\* listTables, describeTable, listPrimaryKeys, listForeignKeys, insertBatch of
\* a non-empty list) fails with an unsupported-vendor error when the handle's
\* vendor tag is one the operation has no branch for; none of them returns a
\* normal result for such a tag.
C18_UnsupportedVendorFails ==
    ( /\ call.op \in DispatchOps
      /\ ~HasBranch(call.op, tgtVendor)
      /\ call.op = "insertBatch" => call.rows # << >> ) =>
        /\ ~call.ok
        /\ call.error \in UnsupportedVendorErrors(tgtVendor)

\* C22: the sql_query tool executes only read-only statements: no sql_query
\* call, whatever query text it is given, changes the data or the schema of the
\* database behind the named connection.
C22_SqlQueryReadOnly ==
    call.op = "sql_query" => call.after = call.before

\* C25: on the embedded-engine vendor (SQLite), insertBatch is atomic per call:
\* the statement is prepared once and executed once per row inside one
\* transaction, and if the execution of any row fails, none of the rows of that
\* batch is persisted and the failure propagates to the caller.
C25_SqliteBatchAtomic ==
    call.op = "insertBatch (sqlite)" =>
        /\ call.prepares = 1
        /\ call.ok => /\ call.runs = Len(call.rows)
                      /\ call.value = Len(call.rows)
                      /\ call.after = call.before \o call.rows
        /\ call.failRow # 0 => /\ ~call.ok
                               /\ call.error = NativeMsg
                               /\ call.after = call.before

\* the second row of a batch of two fails after the first was written
C25_Witness ==
    /\ call.op = "insertBatch (sqlite)"
    /\ Len(call.rows) = 2
    /\ call.failRow = 2
    /\ call.runs = 2
    /\ tgtRows[call.table] = call.before

\* C29: healthCheck returns status healthy only if, during that call, a native
\* probe query against the handle's database completed successfully; this holds
\* for every vendor tag, including sqlserver and tags the probe has no branch for.
C29_HealthyOnlyAfterProbe ==
    (call.op = "healthCheck" /\ call.status = "healthy") =>
        \E i \in DOMAIN call.calls : call.calls[i] \in {"execute", "query"}

----------------------------------------------------------------------------
(* DatabaseService.executeSqlServerQuery: the event-driven request, one event  *)
(* at a time.  The driver emits row and error events and ends the request with *)
(* requestCompleted, after which it emits nothing more for that request.       *)

MaxErrors == 2

Pending == [state |-> "pending"]
StreamError(k) == "request error " \o ToString(k)

\* a promise that can be settled again
settle_Overwrites(promise, outcome) == outcome

\* new Promise((resolve, reject) => ...): resolve and reject act on a pending promise only
settle(promise, outcome) == IF promise.state = "pending" THEN outcome ELSE promise

\* the promise after a handler ran, with the history of the states it assumed
requestSettled(outcome) ==
    LET p == settle(request.promise, outcome)
    IN  [promise |-> p,
         outcomes |-> IF p # request.promise
                      THEN Append(request.outcomes, [promise |-> p, buffered |-> request.rows])
                      ELSE request.outcomes]

\* the executor body up to request.query(sql): handlers registered, nothing received yet
sqlServerRequest ==
    /\ request.phase = "none"
    /\ srcVendor = "sqlserver"
    /\ \E t \in ObjectNames, maxRows \in 0..MaxCap :
          request' = [phase |-> "open", maxRows |-> maxRows, all |-> srcRows[t],
                      sent |-> 0, errors |-> 0, rows |-> << >>, promise |-> Pending,
                      events |-> << >>, outcomes |-> << >>]
    /\ UNCHANGED << envVars, tgtRows, leased, pc, caller, mdVars, ti, mt, mtOutcome,
                    batches, tgtAtEntry, replVars, adapterVars, pair, analysis, storeVars,
                    appVars >>

\* request.on('row', ...): rows.push(row) only while rows.length < maxRows
onRow ==
    /\ request.phase = "open"
    /\ request.sent < Len(request.all)
    /\ LET row == request.all[request.sent + 1]
       IN  request' = [request EXCEPT
                          !.sent = @ + 1,
                          !.rows = IF Len(@) < request.maxRows THEN Append(@, row) ELSE @,
                          !.events = Append(@, [type |-> "row", row |-> row])]
    /\ UNCHANGED << envVars, tgtRows, leased, pc, caller, mdVars, ti, mt, mtOutcome,
                    batches, tgtAtEntry, replVars, adapterVars, pair, analysis, storeVars,
                    appVars >>

\* request.on('requestCompleted', ...): resolve({ columns, rows, rowCount: rows.length })
onRequestCompleted ==
    /\ request.phase = "open"
    /\ request.sent = Len(request.all) \/ request.errors > 0
    /\ LET r == requestSettled([state |-> "resolved", rowCount |-> Len(request.rows)])
       IN  request' = [request EXCEPT
                          !.phase = "closed",
                          !.promise = r.promise,
                          !.outcomes = r.outcomes,
                          !.events = Append(@, [type |-> "requestCompleted"])]
    /\ UNCHANGED << envVars, tgtRows, leased, pc, caller, mdVars, ti, mt, mtOutcome,
                    batches, tgtAtEntry, replVars, adapterVars, pair, analysis, storeVars,
                    appVars >>

\* request.on('error', reject)
onError ==
    /\ request.phase = "open"
    /\ request.errors < MaxErrors
    /\ LET e == StreamError(request.errors + 1)
           r == requestSettled([state |-> "rejected", error |-> e])
       IN  request' = [request EXCEPT
                          !.errors = @ + 1,
                          !.promise = r.promise,
                          !.outcomes = r.outcomes,
                          !.events = Append(@, [type |-> "error", error |-> e])]
    /\ UNCHANGED << envVars, tgtRows, leased, pc, caller, mdVars, ti, mt, mtOutcome,
                    batches, tgtAtEntry, replVars, adapterVars, pair, analysis, storeVars,
                    appVars >>

InitStream ==
    /\ srcVendor = "sqlserver"
    /\ tgtVendor = "sqlserver"
    /\ srcKind = [n \in ObjectNames |-> "TABLE"]
    /\ \E k \in [ObjectNames -> 0..MaxRows] :
          srcRows = [n \in ObjectNames |-> RowsOf(n, k[n])]
    /\ tgtRows = [n \in ObjectNames |-> << >>]
    /\ leased = 0
    /\ InitIdle

NextStream ==
    \/ sqlServerRequest
    \/ onRow
    \/ onRequestCompleted
    \/ onError

SpecStream == InitStream /\ [][NextStream]_vars

----------------------------------------------------------------------------
(* Properties of the event-driven executor (checked under SpecStream) *)

Terminal(events) == { i \in DOMAIN events : events[i].type \in {"requestCompleted", "error"} }
FirstTerminal(events) == CHOOSE i \in Terminal(events) : \A j \in Terminal(events) : i <= j
RowEvents(events) == SelectSeq(events, LAMBDA e : e.type = "row")
RowsReceived(events) == [k \in 1..Len(RowEvents(events)) |-> RowEvents(events)[k].row]
FirstRows(received, cap) == SubSeq(received, 1, Min(cap, Len(received)))

\* C11: for the event-driven vendor the deferred result of executeQuery settles
\* exactly once, on the first terminal event of the request: completion
\* resolves with the rows buffered so far, error rejects; later events do not
\* change the outcome; rows are buffered in arrival order only while the
\* buffer is below the cap; reaching the cap does not settle the result.
C11_SettlesOnceOnFirstTerminal ==
    request.phase # "none" =>
        LET ev == request.events
        IN  /\ Len(request.outcomes) <= 1
            /\ request.promise.state = "pending" <=> Terminal(ev) = {}
            /\ request.rows = FirstRows(RowsReceived(ev), request.maxRows)
            /\ Terminal(ev) # {} =>
                  LET f == FirstTerminal(ev)
                      before == RowsReceived(SubSeq(ev, 1, f - 1))
                  IN  IF ev[f].type = "requestCompleted"
                      THEN /\ request.promise.state = "resolved"
                           /\ request.promise.rowCount
                                  = Len(FirstRows(before, request.maxRows))
                           /\ request.rows = FirstRows(before, request.maxRows)
                           /\ request.outcomes[1].buffered = request.rows
                      ELSE /\ request.promise.state = "rejected"
                           /\ request.promise.error = ev[f].error

\* a request that failed first, went on receiving rows past the cap and then completed
C11_Witness ==
    /\ request.phase = "closed"
    /\ request.maxRows >= 1
    /\ Len(RowsReceived(request.events)) > request.maxRows
    /\ Len(request.rows) = request.maxRows
    /\ FirstTerminal(request.events) < Len(request.events)
    /\ request.promise.state = "rejected"

----------------------------------------------------------------------------
(* DataMigrationService.migrateData as one call, run with the truncate flag    *)
(* and, on the same databases and with the same native failures, without it.   *)
(* failAt = 0: no adapter call of the table's copy fails; failAt = k: its k-th *)
(* adapter call (describeTable, executeQuery, then the insertBatch calls) does. *)

FailPoints == 0..3
AdapterCall(handle, op, arg) == [on |-> handle, op |-> op, arg |-> arg]

\* the batch loop of migrateTable from loop state st; callNo numbers the adapter call
RECURSIVE batchLoopRun(_, _, _, _, _)
batchLoopRun(st, target, batchSize, failAt, callNo) ==
    IF ~(st.i < Len(st.rows))
    THEN [state |-> "resolved", rows |-> st.totalInserted, tgt |-> st.tgt, trace |-> st.trace]
    ELSE LET batch == slice(st.rows, st.i, st.i + batchSize)
             nativeOk == failAt # callNo
             r == insertBatch(tgtVendor, batch, nativeOk)
             tgt1 == [st.tgt EXCEPT ![target] = insertBatchStored(tgtVendor, @, batch, nativeOk)]
             trace1 == Append(st.trace, AdapterCall("target", "insertBatch", batch))
         IN  IF r.ok
             THEN batchLoopRun([st EXCEPT !.i = @ + batchSize,
                                          !.totalInserted = @ + Len(batch),
                                          !.tgt = tgt1, !.trace = trace1],
                               target, batchSize, failAt, callNo + 1)
             ELSE [state |-> "rejected", error |-> r.error, tgt |-> tgt1, trace |-> trace1]

\* migrateTable(tableName, targetTableName, batchSize) on target data tgt
migrateTableRun(tableName, targetTableName, batchSize, failAt, tgt) ==
    LET target == IF targetTableName = "" THEN tableName ELSE targetTableName
        d == describeTable(srcVendor, failAt # 1)
        t1 == << AdapterCall("source", "describeTable", tableName) >>
        q == executeQuery(srcVendor, selectColumns(srcRows[tableName], d.value),
                          MigrateCap, failAt # 2)
        t2 == Append(t1, AdapterCall("source", "executeQuery", tableName))
    IN  IF ~d.ok THEN [state |-> "rejected", error |-> d.error, tgt |-> tgt, trace |-> t1]
        ELSE IF ~q.ok THEN [state |-> "rejected", error |-> q.error, tgt |-> tgt, trace |-> t2]
        ELSE IF Len(q.rows) = 0 THEN [state |-> "resolved", rows |-> 0, tgt |-> tgt, trace |-> t2]
        ELSE batchLoopRun([rows |-> q.rows, i |-> 0, totalInserted |-> 0, tgt |-> tgt,
                           trace |-> t2], target, batchSize, failAt, 3)

\* a truncate branch that empties the target table
truncateBranch_Deletes(flag, table, tgt) ==
    IF flag THEN [tgt EXCEPT ![table] = << >>] ELSE tgt

\* if (truncateTarget) { /* TODO */ }: the branch has no statement
truncateBranch(flag, table, tgt) == IF flag THEN tgt ELSE tgt

\* the loop of migrateData from table k on; acc: the report, the target and the calls so far
RECURSIVE migrateDataRun(_, _, _, _, _)
migrateDataRun(tableList, flag, failAts, k, acc) ==
    IF k > Len(tableList) THEN acc
    ELSE LET res == migrateTableRun(tableList[k], "", DefaultBatchSize, failAts[k],
                                    truncateBranch(flag, tableList[k], acc.tgt))
             entry == IF res.state = "resolved" THEN successEntry(tableList[k], res)
                      ELSE errorEntry(tableList[k], res)
         IN  migrateDataRun(tableList, flag, failAts, k + 1,
                            [results |-> Append(acc.results, entry), tgt |-> res.tgt,
                             trace |-> acc.trace \o res.trace])

\* await migrator.migrateData(tables, truncateTarget), and what the same call
\* does with the flag negated
migrateDataBothFlags ==
    /\ pc = "idle"
    /\ pair = NoPair
    /\ \E tl \in TableLists, flag \in BOOLEAN :
          \E failAts \in [1..Len(tl) -> FailPoints] :
             LET start == [results |-> << >>, tgt |-> tgtRows, trace |-> << >>]
                 run == migrateDataRun(tl, flag, failAts, 1, start)
                 twin == migrateDataRun(tl, ~flag, failAts, 1, start)
             IN  /\ pair' = [op |-> "migrateData", tables |-> tl, truncateTarget |-> flag,
                             failAts |-> failAts, before |-> tgtRows, run |-> run,
                             twin |-> twin]
                 /\ tgtRows' = run.tgt
    /\ UNCHANGED << envVars, leased, pc, caller, mdVars, ti, mt, mtOutcome, batches,
                    tgtAtEntry, replVars, adapterVars, request, analysis, storeVars,
                    appVars >>

InitTrunc ==
    /\ srcVendor \in VendorTags
    /\ tgtVendor \in VendorTags
    /\ srcKind = [n \in ObjectNames |-> "TABLE"]
    /\ \E k \in 0..MaxRows : srcRows = [n \in ObjectNames |-> RowsOf(n, k)]
    /\ \E p \in 0..MaxPre : tgtRows = [n \in ObjectNames |-> PreRows(n, p)]
    /\ leased = 0
    /\ InitIdle

NextTrunc == migrateDataBothFlags

SpecTrunc == InitTrunc /\ [][NextTrunc]_vars

----------------------------------------------------------------------------
(* Properties of the truncate flag (checked under SpecTrunc) *)

\* C16: the truncate-target flag of migrateData is a no-op: for the same
\* table list and the same source and target states, migrateData with the
\* flag true makes the same sequence of adapter calls, leaves the target in
\* the same state and returns the same report statuses and row counts as
\* with the flag false; rows already in the target are never deleted.
C16_TruncateFlagNoOp ==
    pair.op = "migrateData" =>
        /\ pair.run.trace = pair.twin.trace
        /\ pair.run.tgt = pair.twin.tgt
        /\ Len(pair.run.results) = Len(pair.twin.results)
        /\ \A i \in DOMAIN pair.run.results :
              /\ pair.run.results[i].table = pair.twin.results[i].table
              /\ pair.run.results[i].status = pair.twin.results[i].status
              /\ pair.run.results[i].status = "success" =>
                     pair.run.results[i].rows = pair.twin.results[i].rows
        /\ \A n \in ObjectNames :
              /\ Len(tgtRows[n]) >= Len(pair.before[n])
              /\ SubSeq(tgtRows[n], 1, Len(pair.before[n])) = pair.before[n]

\* a flagged run over a target that held rows, which copied one table and failed on another
C16_Witness ==
    /\ pair.op = "migrateData"
    /\ pair.truncateTarget
    /\ pair.before["A"] # << >>
    /\ \E i \in DOMAIN pair.run.results :
          pair.run.results[i].status = "success" /\ pair.run.results[i].rows > 0
    /\ \E i \in DOMAIN pair.run.results : pair.run.results[i].status = "error"
    /\ Len(tgtRows["A"]) > Len(pair.before["A"])

----------------------------------------------------------------------------
(* The operations that hand a failure on: the adapter calls on one handle and  *)
(* migrateTable from a second handle of the same vendor into it.               *)

\* the adapter call a migrateTable run made last, and how it settled
lastAdapterCall(run, failAt) ==
    LET n == Len(run.trace)
        c == run.trace[n]
        r == CASE c.op = "describeTable" -> describeTable(srcVendor, failAt # n)
               [] c.op = "executeQuery" ->
                      executeQuery(srcVendor, srcRows[c.arg], MigrateCap, failAt # n)
               [] c.op = "insertBatch" -> insertBatch(tgtVendor, c.arg, failAt # n)
    IN  [op |-> c.op, ok |-> r.ok, error |-> r.error]

\* a call of migrateTable(tableName, undefined, batchSize), taken as a whole
migrateTableWhole ==
    /\ pc = "idle"
    /\ ncalls < MaxCalls
    /\ \E t \in ObjectNames, b \in BatchSizes, failAt \in 0..(2 + MaxRows) :
          LET run == migrateTableRun(t, "", b, failAt, tgtRows)
          IN  /\ call' = [op |-> "migrateTable", table |-> t,
                          ok |-> run.state = "resolved",
                          value |-> IF run.state = "resolved" THEN run.rows ELSE 0,
                          error |-> IF run.state = "resolved" THEN "" ELSE run.error,
                          calls |-> << >>, adapter |-> lastAdapterCall(run, failAt)]
              /\ tgtRows' = run.tgt
    /\ ncalls' = ncalls + 1
    /\ UNCHANGED << envVars, sideVars, leased, pc, caller, mdVars, ti, mt, mtOutcome,
                    batches, tgtAtEntry, replVars >>

InitOps ==
    /\ tgtVendor \in VendorTags
    /\ srcVendor = tgtVendor
    /\ srcKind = [n \in ObjectNames |-> "TABLE"]
    /\ \E k \in 0..MaxRows : srcRows = [n \in ObjectNames |-> RowsOf(n, k)]
    /\ \E p \in 0..MaxPre : tgtRows = [n \in ObjectNames |-> PreRows(n, p)]
    /\ leased = 0
    /\ InitIdle

NextOps ==
    \/ NextAdapter
    \/ migrateTableWhole

SpecOps == InitOps /\ [][NextOps]_vars

----------------------------------------------------------------------------
(* Properties of failure propagation (checked under SpecOps) *)

NativeOps == {"listTables", "describeTable", "listPrimaryKeys", "listForeignKeys",
              "insertBatch"}
ExecuteQueryError == "Error ejecutando query: " \o NativeMsg

\* the failure of the call an operation awaits reaches the operation's caller as it was thrown
HandsOn(ops) ==
    /\ (call.op \in ops \cap NativeOps /\ Failed(call.calls)) =>
           ~call.ok /\ call.error = NativeMsg
    /\ (call.op \in ops \cap OracleOnlyOps /\ Failed(call.calls)) =>
           ~call.ok /\ call.error = ExecuteQueryError
    /\ (call.op \in ops \cap {"migrateTable"} /\ ~call.adapter.ok) =>
           ~call.ok /\ call.error = call.adapter.error

\* C17 (as stated): every operation other than executeQuery, healthCheck,
\* migrateData and replicateDatabase propagates a failure of the call it makes
\* to its caller unmodified: listTables, describeTable, listPrimaryKeys,
\* listForeignKeys, insertBatch, migrateTable and the four Oracle-only
\* operations never swallow a failure into a normal return value and never
\* replace the error.
C17_AllPropagate == HandsOn(NativeOps \cup OracleOnlyOps \cup {"migrateTable"})

\* C17 (amended): the same for every one of those operations but
\* getOracleErrors, which catches a failure of its query and returns an empty
\* list.
C17_AllButGetOracleErrorsPropagate ==
    /\ HandsOn(NativeOps \cup (OracleOnlyOps \ {"getOracleErrors"}) \cup {"migrateTable"})
    /\ (call.op = "getOracleErrors" /\ Failed(call.calls)) =>
           call.ok /\ call.value = << >>

\* a migrateTable whose second insertBatch failed in the driver
C17_Witness ==
    /\ call.op = "migrateTable"
    /\ call.adapter.op = "insertBatch"
    /\ ~call.adapter.ok
    /\ call.error = NativeMsg
    /\ Len(tgtRows[call.table]) > MaxPre

----------------------------------------------------------------------------
(* DatabaseService.analyzeProcedureTables.  A source text is its sequence of   *)
(* words (maximal runs without white space); the texts of the model are lists  *)
(* of SQL statements over a few table names, in upper or lower case.           *)

MaxStatements == 2

TableWords == {"ORDERS", "CUSTOMERS", "orders"}
KeyWords == {"SELECT", "FROM", "INSERT", "INTO", "UPDATE", "SET", "DELETE", "MERGE",
             "USING", "delete", "from"}

\* a statement: its kind, the table it acts on and, for INSERT ... SELECT and
\* MERGE ... USING (SELECT ...), the table it reads
Statements ==
    [kind : {"SELECT", "UPDATE", "DELETE", "delete"}, table : TableWords, reads : {""}]
        \cup [kind : {"INSERT", "MERGE"}, table : TableWords, reads : TableWords]

\* the words of a statement
Words(st) ==
    CASE st.kind = "SELECT" -> << "SELECT", "*", "FROM", st.table >>
      [] st.kind = "UPDATE" -> << "UPDATE", st.table, "SET", "X", "=", "1" >>
      [] st.kind = "DELETE" -> << "DELETE", "FROM", st.table >>
      [] st.kind = "delete" -> << "delete", "from", st.table >>
      [] st.kind = "INSERT" ->
             << "INSERT", "INTO", st.table, "(...)", "SELECT", "*", "FROM", st.reads >>
      [] st.kind = "MERGE" ->
             << "MERGE", "INTO", st.table, "USING", "(", "SELECT", "*", "FROM", st.reads, ")" >>

\* the source text of a list of statements, ';' between them
RECURSIVE SourceText(_)
SourceText(sts) ==
    IF sts = << >> THEN << >>
    ELSE Words(Head(sts)) \o << ";" >> \o SourceText(Tail(sts))

\* a word the group ([A-Z_][A-Z0-9_]*) captures whole, under the i flag
IsIdentifier(w) == w \in TableWords \cup KeyWords \cup {"X"}

\* the captures of /k1\s+...\s+kn\s+([A-Z_][A-Z0-9_]*)/gi in the text, upper-cased
captures(text, keywords) ==
    { toUpperCase(text[i + Len(keywords)]) :
        i \in { j \in 1..(Len(text) - Len(keywords)) :
                  /\ \A k \in 1..Len(keywords) : toUpperCase(text[j + k - 1]) = keywords[k]
                  /\ IsIdentifier(text[j + Len(keywords)]) } }

\* const patterns = { select: /FROM\s+.../gi, insert: /INSERT\s+INTO\s+.../gi, ... }
patterns(operation) ==
    CASE operation = "SELECT" -> << "FROM" >>
      [] operation = "INSERT" -> << "INSERT", "INTO" >>
      [] operation = "UPDATE" -> << "UPDATE" >>
      [] operation = "DELETE" -> << "DELETE", "FROM" >>
      [] operation = "MERGE" -> << "MERGE", "INTO" >>

Operations == {"SELECT", "INSERT", "UPDATE", "DELETE", "MERGE"}

\* tableOps after the loop over the patterns: table name -> set of operations
analyzeProcedureTables(text) ==
    [t \in UNION { captures(text, patterns(o)) : o \in Operations } |->
        { o \in Operations : t \in captures(text, patterns(o)) }]

analyzeCall ==
    /\ analysis = NoAnalysis
    /\ \E sts \in SeqsUpTo(Statements, MaxStatements) :
          analysis' = [op |-> "analyzeProcedureTables", statements |-> sts,
                       result |-> analyzeProcedureTables(SourceText(sts))]
    /\ UNCHANGED << envVars, tgtRows, leased, pc, caller, mdVars, ti, mt, mtOutcome,
                    batches, tgtAtEntry, replVars, adapterVars, request, pair, storeVars,
                    appVars >>

\* DatabaseService.parseProcedureBlocks.  A source text is the list of its lines
\* (sourceCode.split('\n'), never empty); a line is given by the first branch of
\* the classifying if-chain its trimmed, upper-cased text takes.
MaxLines == 3

LineKinds == {"BEGIN", "CURSOR", "SQL", "EXCEPTION", "END", "OTHER"}

\* createBlock(type, lines, start, end); content is the block's lines joined by
\* '\n', kept here as the list of lines (the tables field is left out)
createBlock(type, lines, start, end) ==
    [type |-> type, content |-> lines, lineStart |-> start + 1, lineEnd |-> end + 1]

\* the blocks pushed when the running block is closed before line i
flushed(st, i) ==
    IF Len(st.currentBlock) > 0
    THEN Append(st.blocks, createBlock(st.blockType, st.currentBlock, st.blockStart, i - 1))
    ELSE st.blocks

\* the for loop from line index i (0-based) on, then the last block
RECURSIVE parseLines(_, _, _)
parseLines(lines, i, st) ==
    IF ~(i < Len(lines))
    THEN flushed(st, Len(lines))
    ELSE LET line == lines[i + 1]
             opened(type) == [blocks |-> flushed(st, i), currentBlock |-> << line >>,
                              blockStart |-> i, blockType |-> type]
             pushed == [st EXCEPT !.currentBlock = Append(@, line)]
         IN  parseLines(lines, i + 1,
                CASE line = "BEGIN" -> opened("begin")
                  [] line = "CURSOR" -> [pushed EXCEPT !.blockType = "cursor"]
                  [] line = "SQL" -> IF st.blockType # "sql" THEN opened("sql") ELSE pushed
                  [] line = "EXCEPTION" -> opened("exception")
                  [] line = "END" ->
                         [blocks |-> Append(st.blocks,
                                            createBlock(st.blockType, pushed.currentBlock,
                                                        st.blockStart, i)),
                          currentBlock |-> << >>, blockStart |-> st.blockStart,
                          blockType |-> "end"]
                  [] OTHER -> pushed)

parseProcedureBlocks(lines) ==
    parseLines(lines, 0, [blocks |-> << >>, currentBlock |-> << >>, blockStart |-> 0,
                          blockType |-> "declaration"])

parseCall ==
    /\ analysis = NoAnalysis
    /\ \E lines \in SeqsUpTo(LineKinds, MaxLines) \ {<< >>} :
          analysis' = [op |-> "parseProcedureBlocks", lines |-> lines,
                       result |-> parseProcedureBlocks(lines)]
    /\ UNCHANGED << envVars, tgtRows, leased, pc, caller, mdVars, ti, mt, mtOutcome,
                    batches, tgtAtEntry, replVars, adapterVars, request, pair, storeVars,
                    appVars >>

InitProc ==
    /\ srcVendor = "oracle"
    /\ tgtVendor = "oracle"
    /\ srcKind = [n \in ObjectNames |-> "TABLE"]
    /\ srcRows = [n \in ObjectNames |-> << >>]
    /\ tgtRows = [n \in ObjectNames |-> << >>]
    /\ leased = 0
    /\ InitIdle

NextProc == analyzeCall \/ parseCall

SpecProc == InitProc /\ [][NextProc]_vars

----------------------------------------------------------------------------
(* Properties of the procedure analysis (checked under SpecProc) *)

\* the (table, operation kind) pairs of the statements of a text
References(sts) ==
    UNION { {<< toUpperCase(sts[i].table), toUpperCase(sts[i].kind) >>}
              \cup IF sts[i].reads = "" THEN {}
                   ELSE {<< toUpperCase(sts[i].reads), "SELECT" >>} : i \in DOMAIN sts }

\* C19: analyzeProcedureTables maps each referenced table, by upper-cased
\* name, to exactly the set of operation kinds (SELECT, INSERT, UPDATE,
\* DELETE, MERGE) of the statements that reference it in the source text; for
\* 'INSERT INTO ORDERS (...) SELECT * FROM CUSTOMERS' the result contains
\* ORDERS -> {INSERT} and CUSTOMERS -> {SELECT}.
C19_ExactOperationKinds ==
    analysis.op = "analyzeProcedureTables" =>
        LET refs == References(analysis.statements)
        IN  /\ DOMAIN analysis.result = { r[1] : r \in refs }
            /\ \A t \in DOMAIN analysis.result :
                  analysis.result[t] = { r[2] : r \in { q \in refs : q[1] = t } }
            /\ analysis.statements
                   = << [kind |-> "INSERT", table |-> "ORDERS", reads |-> "CUSTOMERS"] >>
               => /\ analysis.result["ORDERS"] = {"INSERT"}
                  /\ analysis.result["CUSTOMERS"] = {"SELECT"}

\* C26: every block emitted by parseProcedureBlocks, for every source text, has
\* 1 <= lineStart <= lineEnd with lineEnd - lineStart + 1 equal to the number of
\* source lines in its content, and the line ranges of successive blocks are
\* disjoint and increasing (a block's lineStart is greater than the previous
\* block's lineEnd).
C26_BlockRanges ==
    analysis.op = "parseProcedureBlocks" =>
        LET blocks == analysis.result
        IN  /\ \A k \in DOMAIN blocks :
                  /\ 1 <= blocks[k].lineStart
                  /\ blocks[k].lineStart <= blocks[k].lineEnd
                  /\ blocks[k].lineEnd - blocks[k].lineStart + 1 = Len(blocks[k].content)
            /\ \A k \in 2..Len(blocks) : blocks[k].lineStart > blocks[k - 1].lineEnd

----------------------------------------------------------------------------
(* StorageService: the connections table of .dba-mcp/storage.db.  The variable *)
(* connections is the table, its rows in rowid order; lastOp records, for each *)
(* id, the last saveConnection or removeConnection applied to it; got is the   *)
(* value of the last getConnections call with the lastOp it was made under.    *)

\* the { id, vendor, connectionString } records handed to saveConnection; the
\* vendor is stored as given
ConnectionConfigs ==
    [id : ConnectionIds, vendor : {"sqlite", "postgres"},
     connectionString : {"sqlite://v1.db", "postgres://v2"}]

\* INSERT without OR REPLACE: the row of the same id stays
insertOrReplace_KeepsOld(table, row) == Append(table, row)

\* INSERT OR REPLACE INTO connections: id is the PRIMARY KEY, so the row of the
\* same id is deleted and the new row is inserted after the others
insertOrReplace(table, row) ==
    LET other(r) == r.id # row.id
    IN  Append(SelectSeq(table, other), row)

saveConnection ==
    /\ \E conn \in ConnectionConfigs :
          /\ connections' = insertOrReplace(connections,
                                [id |-> conn.id, vendor |-> conn.vendor,
                                 connection_string |-> conn.connectionString])
          /\ lastOp' = [lastOp EXCEPT ![conn.id] =
                           [op |-> "save", vendor |-> conn.vendor,
                            connectionString |-> conn.connectionString]]
    /\ UNCHANGED << envVars, tgtRows, leased, pc, caller, mdVars, ti, mt, mtOutcome,
                    batches, tgtAtEntry, replVars, adapterVars, request, pair, analysis,
                    got,
                    appVars >>

\* DELETE FROM connections WHERE id = ?
removeConnection ==
    /\ \E id \in ConnectionIds :
          /\ LET other(r) == r.id # id
             IN  connections' = SelectSeq(connections, other)
          /\ lastOp' = [lastOp EXCEPT ![id] = [op |-> "remove"]]
    /\ UNCHANGED << envVars, tgtRows, leased, pc, caller, mdVars, ti, mt, mtOutcome,
                    batches, tgtAtEntry, replVars, adapterVars, request, pair, analysis,
                    got,
                    appVars >>

\* SELECT id, vendor, connection_string FROM connections, each row mapped to
\* { id, vendor, connectionString }
getConnections ==
    /\ got' = [op |-> "getConnections",
               result |-> [i \in DOMAIN connections |->
                              [id |-> connections[i].id,
                               vendor |-> connections[i].vendor,
                               connectionString |-> connections[i].connection_string]],
               after |-> lastOp]
    /\ UNCHANGED << envVars, tgtRows, leased, pc, caller, mdVars, ti, mt, mtOutcome,
                    batches, tgtAtEntry, replVars, adapterVars, request, pair, analysis,
                    connections, lastOp,
                    appVars >>

\* the markdown texts handed to saveContext; getContext returns the text or null
ContextContents == {"", "# My Context"}
Null == [null |-> TRUE]
Value(v) == [value |-> v]

\* INSERT without OR REPLACE: the row of the same connection id stays
insertOrReplaceContext_KeepsOld(table, row) == Append(table, row)

\* INSERT OR REPLACE INTO contexts: connection_id is the PRIMARY KEY
insertOrReplaceContext(table, row) ==
    LET other(r) == r.connection_id # row.connection_id
    IN  Append(SelectSeq(table, other), row)

\* SELECT ... FROM contexts WHERE connection_id = ?
contextRows(table, connectionId) ==
    LET same(r) == r.connection_id = connectionId
    IN  SelectSeq(table, same)

saveContext ==
    /\ \E connectionId \in ConnectionIds, content \in ContextContents :
          /\ contexts' = insertOrReplaceContext(contexts,
                             [connection_id |-> connectionId, content |-> content])
          /\ ctxSaved' = [ctxSaved EXCEPT ![connectionId] =
                             [op |-> "save", content |-> content]]
    /\ UNCHANGED << envVars, tgtRows, leased, pc, caller, mdVars, ti, mt, mtOutcome,
                    batches, tgtAtEntry, replVars, adapterVars, request, pair, analysis,
                    storeVars, registry, running, argv, reply >>

\* const row = ....get(connectionId); return row ? row.content : null
getContext ==
    /\ \E connectionId \in ConnectionIds :
          LET rows == contextRows(contexts, connectionId)
          IN  got' = [op |-> "getContext", id |-> connectionId,
                      result |-> IF rows # << >> THEN Value(rows[1].content) ELSE Null,
                      after |-> ctxSaved]
    /\ UNCHANGED << envVars, tgtRows, leased, pc, caller, mdVars, ti, mt, mtOutcome,
                    batches, tgtAtEntry, replVars, adapterVars, request, pair, analysis,
                    connections, lastOp, appVars >>

\* const row = ....get(connectionId); return !!row
hasContext ==
    /\ \E connectionId \in ConnectionIds :
          got' = [op |-> "hasContext", id |-> connectionId,
                  result |-> contextRows(contexts, connectionId) # << >>,
                  after |-> ctxSaved]
    /\ UNCHANGED << envVars, tgtRows, leased, pc, caller, mdVars, ti, mt, mtOutcome,
                    batches, tgtAtEntry, replVars, adapterVars, request, pair, analysis,
                    connections, lastOp, appVars >>

\* close() and new StorageService(dataDir) on the same directory: CREATE TABLE
\* IF NOT EXISTS leaves the stored rows as they are
StorageService ==
    /\ got # NoOp
    /\ got' = NoOp
    /\ UNCHANGED << envVars, tgtRows, leased, pc, caller, mdVars, ti, mt, mtOutcome,
                    batches, tgtAtEntry, replVars, adapterVars, request, pair, analysis,
                    connections, lastOp,
                    appVars >>

\* new StorageService(testDir) on a directory just created: the table is empty
InitStore ==
    /\ srcVendor = "sqlite"
    /\ tgtVendor = "sqlite"
    /\ srcKind = [n \in ObjectNames |-> "TABLE"]
    /\ srcRows = [n \in ObjectNames |-> << >>]
    /\ tgtRows = [n \in ObjectNames |-> << >>]
    /\ leased = 0
    /\ InitIdle

NextStore ==
    \/ saveConnection
    \/ removeConnection
    \/ getConnections
    \/ saveContext
    \/ getContext
    \/ hasContext
    \/ StorageService

SpecStore == InitStore /\ [][NextStore]_vars

----------------------------------------------------------------------------
(* Properties of the connection store (checked under SpecStore) *)

\* C20: the persisted connection store behaves as a map keyed by id: it is
\* empty after initialization, and after any sequence of saveConnection and
\* removeConnection calls getConnections returns exactly one record for each id
\* whose last operation was a save, holding the id, vendor and connection
\* string of that last save, and no record for an id whose last operation was
\* a remove.
C20_StoreIsMapById ==
    got.op = "getConnections" =>
        /\ \A id \in ConnectionIds :
              LET records == { i \in DOMAIN got.result : got.result[i].id = id }
              IN  IF got.after[id].op = "save"
                  THEN /\ Cardinality(records) = 1
                       /\ \A i \in records :
                             got.result[i] = [id |-> id, vendor |-> got.after[id].vendor,
                                              connectionString |-> got.after[id].connectionString]
                  ELSE records = {}
        /\ (\A id \in ConnectionIds : got.after[id] = NoOp) => got.result = << >>

\* a listing made after an id was saved twice with different fields and another
\* id was saved and then removed
C20_Witness ==
    /\ got.op = "getConnections"
    /\ got.after["c1"] = [op |-> "save", vendor |-> "postgres", connectionString |-> "postgres://v2"]
    /\ got.after["c2"] = [op |-> "remove"]
    /\ Len(got.result) = 1
    /\ \E i \in DOMAIN connections : connections[i].id = "c1"

\* C21: stored database context round-trips per connection id: after
\* saveContext(id, content), hasContext(id) is true and getContext(id) returns
\* the content of the last save for that id; for an id with no saved context
\* hasContext is false and getContext returns null; saving a context for one
\* id never changes the context of another id.
C21_ContextRoundTrip ==
    got.op \in {"getContext", "hasContext"} =>
        LET last == got.after[got.id]
        IN  IF last.op = "save"
            THEN /\ got.op = "hasContext" => got.result = TRUE
                 /\ got.op = "getContext" => got.result = Value(last.content)
            ELSE /\ got.op = "hasContext" => got.result = FALSE
                 /\ got.op = "getContext" => got.result = Null

\* a context read back after it was saved twice, while the other id, saved in
\* between, holds another text
C21_Witness ==
    /\ got.op = "getContext"
    /\ got.id = "c1"
    /\ got.result = Value("# My Context")
    /\ Len(contexts) = 2
    /\ contexts[1] = [connection_id |-> "c2", content |-> ""]
    /\ contexts[2].connection_id = "c1"

----------------------------------------------------------------------------
(* DataMigrationService.migrateTable called with any integer batchSize.  The   *)
(* loop is the one of mtInsertBatch without the history of batches, so that an *)
(* iteration that changes nothing is a step that changes nothing.              *)

MaxBack == 2

AnyBatchSizes == {-1, 0, 1, 2}

migrateTableAnyBatch ==
    /\ pc = "idle"
    /\ \E t \in ObjectNames, b \in AnyBatchSizes : migrateTableEnter(t, "", b, "direct")
    /\ UNCHANGED << envVars, sideVars, tgtRows, leased, mdVars, ti, replVars, adapterVars >>

\* for (let i = 0; i < rows.length; i += batchSize) { batch = rows.slice(i, i + batchSize);
\* await this.target.insertBatch(targetName, batch); totalInserted += batch.length }
batchLoopIteration ==
    /\ pc = "mt_loop"
    /\ mt.i < Len(mt.rows)
    /\ mt.i > -MaxBack
    /\ \E nativeOk \in BOOLEAN :
          LET batch == slice(mt.rows, mt.i, mt.i + mt.batchSize)
              r == insertBatch(tgtVendor, batch, nativeOk)
          IN  /\ tgtRows' = [tgtRows EXCEPT ![mt.target] =
                                insertBatchStored(tgtVendor, @, batch, nativeOk)]
              /\ IF r.ok
                 THEN /\ mt' = [mt EXCEPT !.totalInserted = @ + Len(batch),
                                          !.i = @ + mt.batchSize]
                      /\ UNCHANGED << pc, mtOutcome >>
                 ELSE /\ mtReject(r.error)
                      /\ UNCHANGED mt
    /\ UNCHANGED << envVars, sideVars, leased, caller, mdVars, ti, batches, tgtAtEntry,
                    replVars, adapterVars >>

InitLoop ==
    /\ srcVendor = "sqlite"
    /\ tgtVendor \in VendorTags
    /\ srcKind = [n \in ObjectNames |-> "TABLE"]
    /\ \E k \in 0..MaxRows : srcRows = [n \in ObjectNames |-> RowsOf(n, k)]
    /\ tgtRows = [n \in ObjectNames |-> << >>]
    /\ leased = 0
    /\ InitIdle

NextLoop ==
    \/ migrateTableAnyBatch
    \/ mtDescribe
    \/ mtQuery
    \/ batchLoopIteration
    \/ mtReturn
    \/ mtDirectDone

\* every adapter call awaited returns, and the event loop runs what is runnable
SpecLoop == InitLoop /\ [][NextLoop]_vars /\ WF_vars(NextLoop)

----------------------------------------------------------------------------
(* Properties of the batch loop (checked under SpecLoop) *)

\* C27: migrateTable terminates for every source row count and every integer
\* batchSize, including 0 and negative values, provided each adapter call it
\* makes returns: every iteration of the batch loop advances the slice index.
C27_MigrateTableTerminates == (pc = "mt_describe") ~> (pc = "mt_settled")

----------------------------------------------------------------------------
(* index.js: the in-memory connection registry (let connections = []) over the *)
(* persisted store, across runs of the server process.  A tool handler runs up *)
(* to its await of createConnection without reading or writing the registry,   *)
(* so a call is one step, taken when that await settles.                       *)

MaxArgs == 2

\* --<id> <connectionString> pairs on the command line
CliArgs == SeqsUpTo([id : ConnectionIds,
                     connectionString : {"sqlite://v1.db", "postgres://v2"}], MaxArgs)

\* url.protocol of the connection string -> the vendor tag of the handle
protocolVendor(uri) == IF uri = "postgres://v2" THEN "postgresql" ELSE "sqlite"

\* loader.createConnection(id, uri) that opened: the handle
createConnection(id, uri) ==
    [id |-> id, vendor |-> protocolVendor(uri), connectionString |-> uri]

\* loadConnections(): every pair whose connection opened, in argument order
RECURSIVE loadConnections(_, _)
loadConnections(args, opened) ==
    IF args = << >> THEN << >>
    ELSE (IF Head(opened)
          THEN << createConnection(Head(args).id, Head(args).connectionString) >>
          ELSE << >>) \o loadConnections(Tail(args), Tail(opened))

\* the stored configs not defined on the CLI whose connection opened
RECURSIVE storedConnections(_, _, _)
storedConnections(storedConfigs, cliConnections, opened) ==
    IF storedConfigs = << >> THEN << >>
    ELSE LET config == Head(storedConfigs)
             skip == \E i \in DOMAIN cliConnections : cliConnections[i].id = config.id
         IN  (IF ~skip /\ opened[config.id]
              THEN << createConnection(config.id, config.connection_string) >>
              ELSE << >>) \o storedConnections(Tail(storedConfigs), cliConnections, opened)

\* main(): connections = [...cliConnections, ...storedConnections]; the server
\* answers tool calls only after that
main ==
    /\ ~running
    /\ \E args \in CliArgs :
          \E cliOpened \in [1..Len(args) -> BOOLEAN], storedOpened \in [ConnectionIds -> BOOLEAN] :
             LET cliConnections == loadConnections(args, cliOpened)
             IN  /\ argv' = args
                 /\ registry' = cliConnections
                                   \o storedConnections(connections, cliConnections, storedOpened)
    /\ running' = TRUE
    /\ reply' = NoOp
    /\ UNCHANGED << envVars, tgtRows, leased, pc, caller, mdVars, ti, mt, mtOutcome,
                    batches, tgtAtEntry, replVars, adapterVars, request, pair, analysis,
                    storeVars, contexts, ctxSaved >>

\* connections[existingIndex] = conn, existingIndex the first handle of that id
replaceFirst(handles, conn) ==
    LET existingIndex == CHOOSE i \in DOMAIN handles :
                            /\ handles[i].id = conn.id
                            /\ \A j \in 1..(i - 1) : handles[j].id # conn.id
    IN  [handles EXCEPT ![existingIndex] = conn]

\* if (existingIndex >= 0) connections[existingIndex] = conn; else connections.push(conn)
activate(handles, conn) ==
    IF \E i \in DOMAIN handles : handles[i].id = conn.id
    THEN replaceFirst(handles, conn)
    ELSE Append(handles, conn)

\* case "save_connection"
save_connection ==
    /\ running
    /\ \E args \in ConnectionConfigs, opened \in BOOLEAN :
          LET store == IF opened
                       THEN insertOrReplace(connections,
                                [id |-> args.id, vendor |-> args.vendor,
                                 connection_string |-> args.connectionString])
                       ELSE connections
              active == IF opened
                        THEN activate(registry, createConnection(args.id, args.connectionString))
                        ELSE registry
          IN  /\ connections' = store
              /\ registry' = active
              /\ lastOp' = IF opened
                           THEN [lastOp EXCEPT ![args.id] =
                                    [op |-> "save", vendor |-> args.vendor,
                                     connectionString |-> args.connectionString]]
                           ELSE lastOp
              /\ reply' = [op |-> "save_connection", args |-> args, opened |-> opened,
                           isError |-> ~opened,
                           before |-> [store |-> connections, registry |-> registry],
                           after |-> [store |-> store, registry |-> active]]
    /\ UNCHANGED << envVars, tgtRows, leased, pc, caller, mdVars, ti, mt, mtOutcome,
                    batches, tgtAtEntry, replVars, adapterVars, request, pair, analysis,
                    got, contexts, ctxSaved, running, argv >>

\* case "remove_connection"
remove_connection ==
    /\ running
    /\ \E id \in ConnectionIds :
          LET other(c) == c.id # id
          IN  /\ connections' = SelectSeq(connections, other)
              /\ registry' = SelectSeq(registry, other)
              /\ lastOp' = [lastOp EXCEPT ![id] = [op |-> "remove"]]
              /\ reply' = [op |-> "remove_connection", id |-> id]
    /\ UNCHANGED << envVars, tgtRows, leased, pc, caller, mdVars, ti, mt, mtOutcome,
                    batches, tgtAtEntry, replVars, adapterVars, request, pair, analysis,
                    got, contexts, ctxSaved, running, argv >>

\* the server process ends: the registry is gone, the store stays on disk
exit ==
    /\ running
    /\ running' = FALSE
    /\ registry' = << >>
    /\ argv' = << >>
    /\ reply' = NoOp
    /\ UNCHANGED << envVars, tgtRows, leased, pc, caller, mdVars, ti, mt, mtOutcome,
                    batches, tgtAtEntry, replVars, adapterVars, request, pair, analysis,
                    storeVars, contexts, ctxSaved >>

InitRegistry == InitStore

NextRegistry == main \/ save_connection \/ remove_connection \/ exit

SpecRegistry == InitRegistry /\ [][NextRegistry]_vars

----------------------------------------------------------------------------
(* Properties of the connection registry (checked under SpecRegistry) *)

\* no two elements of a list of handles or of argument pairs have the same id
DistinctIds(s) == \A i, j \in DOMAIN s : i # j => s[i].id # s[j].id

\* C28: in every reachable state of the in-memory connection registry, after
\* startup loading (connections from CLI arguments, then stored connections
\* whose id is not defined on the CLI) and after any interleaving of
\* save_connection and remove_connection calls, no two handles share the same
\* id, so lookup by id is unambiguous.
C28_RegistryIdsUnique == running => DistinctIds(registry)

\* C30: save_connection persists and activates a connection only after the
\* connection was opened successfully: if opening fails, the call returns an
\* error result and both the persisted connections store and the in-memory
\* registry are unchanged; if it succeeds, the store holds a record for the id
\* and the registry holds exactly one handle for the id, replacing any earlier
\* handle with that id.
C30_SaveOnlyAfterOpen ==
    reply.op = "save_connection" =>
        LET id == reply.args.id
            conn == createConnection(id, reply.args.connectionString)
        IN  IF ~reply.opened
            THEN /\ reply.isError
                 /\ reply.after = reply.before
            ELSE /\ ~reply.isError
                 /\ \E i \in DOMAIN reply.after.store : reply.after.store[i].id = id
                 /\ Cardinality({ i \in DOMAIN reply.after.registry :
                                     reply.after.registry[i].id = id }) = 1
                 /\ \E i \in DOMAIN reply.after.registry : reply.after.registry[i] = conn

====
